---- MODULE Spec2Model ----
(***************************************************************************)
(* A model of mailops: the rule predicates and the RulesEngine (rules.py),  *)
(* the configuration classes and their JSON store (config.py), the sender   *)
(* normalisation of the Gmail client (gmail_client.py) and the Manager's    *)
(* automation plan and its execution (manager.py, cli.py).                  *)
(*                                                                         *)
(* A Python string is a sequence of one-character strings; an Optional[str] *)
(* is the empty sequence (None) or a one-element sequence holding the       *)
(* string.  A closure is the record of the values it captured.  An          *)
(* exception is a record [ok |-> FALSE, error |-> ...].                     *)
(***************************************************************************)
EXTENDS Integers, Sequences, FiniteSets, TLC

\* ------------------------------------------------------------------ bounds
MaxRules == 2
MaxBatch == 2
MaxSubjectLen == 2
MaxAdds == 3
MaxPages == 3
MaxExamples == 2
MaxSavers == 2
MaxHistory == 3

\* ----------------------------------------------------------------- strings
None == << >>
Some(s) == << s >>

\* Python truthiness of an Optional[str]: None and "" are falsy.
Truthy(o) == o # None /\ o[1] # << >>

\* (o or "")
OrEmpty(o) == IF o = None THEN << >> ELSE o[1]

Upper == << "A", "B", "C", "D", "E", "F", "G", "H", "I", "J", "K", "L", "M",
           "N", "O", "P", "Q", "R", "S", "T", "U", "V", "W", "X", "Y", "Z" >>
LowerLetters == << "a", "b", "c", "d", "e", "f", "g", "h", "i", "j", "k", "l", "m",
                   "n", "o", "p", "q", "r", "s", "t", "u", "v", "w", "x", "y", "z" >>

LowerChar(c) ==
  IF \E i \in 1..Len(Upper) : Upper[i] = c
  THEN LowerLetters[CHOOSE i \in 1..Len(Upper) : Upper[i] = c]
  ELSE c

\* str.lower()
Lower(s) == [i \in 1..Len(s) |-> LowerChar(s[i])]

IsSpace(c) == c = " "

\* str.strip(): drops the leading and the trailing whitespace.
RECURSIVE LStrip(_)
LStrip(s) == IF s # << >> /\ IsSpace(Head(s)) THEN LStrip(Tail(s)) ELSE s

RECURSIVE RStrip(_)
RStrip(s) ==
  IF s # << >> /\ IsSpace(s[Len(s)]) THEN RStrip(SubSeq(s, 1, Len(s) - 1)) ELSE s

Strip(s) == RStrip(LStrip(s))

\* needle in hay
Contains(needle, hay) ==
  \E i \in 0..(Len(hay) - Len(needle)) : SubSeq(hay, i + 1, i + Len(needle)) = needle

\* All sequences over alphabet of length at most n.
RECURSIVE SeqsUpTo(_, _)
SeqsUpTo(alphabet, n) ==
  IF n = 0 THEN { << >> }
  ELSE LET shorter == SeqsUpTo(alphabet, n - 1)
       IN shorter \cup { Append(s, c) : s \in shorter, c \in alphabet }


\* --------------------------------------------------------------- models.py
\* EmailMessage: the fields the predicates and the actions read.
EmailMessage(message_id, from_email, subject, labels) ==
  [message_id |-> message_id, from_email |-> from_email,
   subject |-> subject, labels |-> labels]

\* ---------------------------------------------------------------- rules.py
Rule(name, predicate, action) ==
  [name |-> name, predicate |-> predicate, action |-> action]

\* match_from_exact without the strip() of its argument.
match_from_exact_unstripped(addr) == [kind |-> "from_exact", addr_l |-> Lower(addr)]

\* The closures: each records what it captured when it was built.
match_from_exact(addr) == [kind |-> "from_exact", addr_l |-> Lower(Strip(addr))]

subject_contains(needle) == [kind |-> "subject_contains", needle_l |-> Lower(needle)]

subject_excludes(needle) == [kind |-> "subject_excludes", needle_l |-> Lower(needle)]

match_from_domain(domain) == [kind |-> "from_domain", domain_l |-> Lower(Strip(domain))]

all_of(preds) == [kind |-> "all_of", preds |-> preds]

lambda_false == [kind |-> "lambda_false"]

\* The body (_pred) of one of the four leaf closures, applied to msg.
CallLeaf(p, msg) ==
  CASE p.kind = "from_exact" -> Lower(Strip(msg.from_email)) = p.addr_l
    [] p.kind = "subject_contains" -> Contains(p.needle_l, Lower(OrEmpty(msg.subject)))
    [] p.kind = "subject_excludes" -> ~Contains(p.needle_l, Lower(OrEmpty(msg.subject)))
    [] p.kind = "from_domain" -> Contains(<< "@" >> \o p.domain_l, Lower(msg.from_email))
    [] OTHER -> FALSE

\* predicate(msg) for a predicate held by a Rule.
Call(p, msg) ==
  CASE p.kind = "all_of" -> \A i \in 1..Len(p.preds) : CallLeaf(p.preds[i], msg)
    [] p.kind = "lambda_false" -> FALSE
    [] OTHER -> CallLeaf(p, msg)

\* first_match that keeps looking after a hit and so returns the last match.
RECURSIVE first_match_last(_, _)
first_match_last(rules, msg) ==
  IF rules = << >> THEN None
  ELSE LET later == first_match_last(Tail(rules), msg)
       IN IF later # None THEN later
          ELSE IF Call(Head(rules).predicate, msg) THEN Some(Head(rules))
          ELSE None

\* RulesEngine.first_match over the engine's list: << >> is None.
RECURSIVE first_match(_, _)
first_match(rules, msg) ==
  IF rules = << >> THEN None
  ELSE IF Call(Head(rules).predicate, msg) THEN Some(Head(rules))
  ELSE first_match(Tail(rules), msg)

Raise(error) == [ok |-> FALSE, error |-> error]
Return(value) == [ok |-> TRUE, value |-> value]

\* The attributes rule_from_config reads from pr.match, in the order it reads them.
ReadAttributes == << "from_exact", "from_domain", "subject_contains", "subject_excludes" >>

\* rule_from_config: reading an attribute the match object does not carry
\* raises AttributeError; otherwise one closure per truthy field, in order.
rule_from_config(pr) ==
  LET m == pr.match
  IN IF \E i \in 1..Len(ReadAttributes) : ReadAttributes[i] \notin DOMAIN m
     THEN Raise("AttributeError")
     ELSE LET p1 == IF Truthy(m.from_exact)
                    THEN << match_from_exact(m.from_exact[1]) >> ELSE << >>
              p2 == IF Truthy(m.from_domain)
                    THEN << match_from_domain(m.from_domain[1]) >> ELSE << >>
              p3 == IF Truthy(m.subject_contains)
                    THEN << subject_contains(m.subject_contains[1]) >> ELSE << >>
              p4 == IF Truthy(m.subject_excludes)
                    THEN << subject_excludes(m.subject_excludes[1]) >> ELSE << >>
              preds == p1 \o p2 \o p3 \o p4
              predicate == IF preds = << >> THEN lambda_false ELSE all_of(preds)
          IN Return(Rule(pr.name, predicate, pr.action))

\* --------------------------------------------------------------- config.py
ActionType == { "print", "archive", "delete", "clickup" }

\* The fields the MatchCriteria dataclass declares.
MatchCriteriaFields ==
  { "header_list_id_contains", "requires_unsubscribe_header",
    "from_domain", "from_exact", "subject_contains" }

MatchCriteriaDefaults ==
  [header_list_id_contains |-> None, requires_unsubscribe_header |-> FALSE,
   from_domain |-> None, from_exact |-> None, subject_contains |-> None]

\* MatchCriteria(**kwargs): a keyword that is no field raises TypeError.
MatchCriteria(kwargs) ==
  IF DOMAIN kwargs \subseteq MatchCriteriaFields
  THEN Return([f \in MatchCriteriaFields |->
                 IF f \in DOMAIN kwargs THEN kwargs[f] ELSE MatchCriteriaDefaults[f]])
  ELSE Raise("TypeError")

PrintRule(name, action, match) == [name |-> name, action |-> action, match |-> match]

\* --------------------------------------------------------- gmail_client.py
IndexOf(c, s) == IF \E i \in 1..Len(s) : s[i] = c
                 THEN CHOOSE i \in 1..Len(s) : s[i] = c /\ \A j \in 1..(i - 1) : s[j] # c
                 ELSE 0

\* email.utils.parseaddr(h)[1] for a header that is empty, a bare address
\* (one token, surrounding blanks allowed) or of the form Name <addr>.
ParseAddr(h) ==
  LET lt == IndexOf("<", h)
  IN IF lt > 0
     THEN LET rest == SubSeq(h, lt + 1, Len(h))
              gt == IndexOf(">", rest)
          IN IF gt > 0 THEN SubSeq(rest, 1, gt - 1) ELSE rest
     ELSE LET s == LStrip(h)
              sp == IndexOf(" ", s)
          IN IF sp > 0 THEN SubSeq(s, 1, sp - 1) ELSE s

\* _extract_email_address: addr or (from_header or "").strip()
extract_email_address(from_header) ==
  LET addr == ParseAddr(from_header)
  IN IF addr # << >> THEN addr ELSE Strip(from_header)


\* -------------------------------------------------------------- manager.py
AppConfig(printer_name, print_rules) ==
  [printer_name |-> printer_name, print_rules |-> print_rules]

\* The methods class GmailClient defines.
GmailClientMethods ==
  { "from_oauth", "search_messages", "get_message_summary",
    "modify_labels", "mark_read", "add_label" }

GmailMessageSummary(message_id, from_email, subject, label_ids) ==
  [message_id |-> message_id, from_email |-> from_email,
   subject |-> subject, label_ids |-> label_ids]

\* GmailClient.get_message_summary: the mailbox holds, per message id, the raw
\* From header, the subject and the labels.
get_message_summary(mailbox, message_id) ==
  GmailMessageSummary(message_id,
                      extract_email_address(mailbox[message_id].from_header),
                      mailbox[message_id].subject,
                      mailbox[message_id].labels)

\* search_messages for the query build_gmail_query makes of the filters:
\* with inbox_only the query holds in:inbox, which selects on the INBOX label.
RECURSIVE SearchFrom(_, _, _)
SearchFrom(mailbox, inbox_only, i) ==
  IF i > Len(mailbox) THEN << >>
  ELSE (IF inbox_only => "INBOX" \in mailbox[i].labels
        THEN << get_message_summary(mailbox, i) >> ELSE << >>)
       \o SearchFrom(mailbox, inbox_only, i + 1)

search_messages(mailbox, inbox_only) == SearchFrom(mailbox, inbox_only, 1)

\* The generator Manager.__init__ hands to RulesEngine: the first rule that
\* fails to compile raises out of the constructor.
RECURSIVE CompileRules(_)
CompileRules(print_rules) ==
  IF print_rules = << >> THEN Return(<< >>)
  ELSE LET first == rule_from_config(Head(print_rules))
       IN IF ~first.ok THEN first
          ELSE LET rest == CompileRules(Tail(print_rules))
               IN IF ~rest.ok THEN rest ELSE Return(<< first.value >> \o rest.value)

\* Manager.__init__(client, config)
Manager(config) ==
  LET compiled_rules == CompileRules(config.print_rules)
  IN IF compiled_rules.ok
     THEN Return([config |-> config, rules_engine |-> compiled_rules.value])
     ELSE compiled_rules

\* The loop of get_automation_plan over the items.
RECURSIVE PlanFor(_, _)
PlanFor(items, rules_engine) ==
  IF items = << >> THEN << >>
  ELSE LET item == Head(items)
           partial_msg == EmailMessage(item.message_id, item.from_email,
                                       Some(item.subject), item.label_ids)
           matched_rule == first_match(rules_engine, partial_msg)
       IN (IF matched_rule # None
           THEN << [item |-> item, rule |-> matched_rule[1]] >> ELSE << >>)
          \o PlanFor(Tail(items), rules_engine)

\* Manager.get_automation_plan
get_automation_plan(mgr, mailbox) ==
  LET items == search_messages(mailbox, TRUE)
  IN IF mgr.config.print_rules = << >> THEN << >>
     ELSE PlanFor(items, mgr.rules_engine)

\* The world an action acts on: the mailbox, the side effects issued so far,
\* the execute_action calls logged so far and the exception raised, if any.
World(mailbox, effects, executions, raised) ==
  [mailbox |-> mailbox, effects |-> effects, executions |-> executions, raised |-> raised]

\* GmailClient.modify_labels
modify_labels(w, message_id, add, remove) ==
  [w EXCEPT !.mailbox[message_id].labels = (@ \cup add) \ remove,
            !.effects = Append(@, [call |-> "modify_labels", message_id |-> message_id,
                                   add |-> add, remove |-> remove])]

\* Manager.execute_action; clickup_env says whether the ClickUp variables are set.
execute_action(w, clickup_env, message_id, action, rule_name) ==
  LET logged == [w EXCEPT !.executions = Append(@, << message_id, action >>)]
  IN CASE action = "print" ->
            IF "get_message_full" \notin GmailClientMethods
            THEN [logged EXCEPT !.raised = Some("AttributeError")]
            ELSE [logged EXCEPT !.effects =
                    Append(@, [call |-> "print_email", message_id |-> message_id])]
       [] action = "archive" -> modify_labels(logged, message_id, { }, { "INBOX" })
       [] action = "delete" -> modify_labels(logged, message_id, { "TRASH" }, { })
       [] action = "clickup" ->
            IF ~clickup_env THEN logged
            ELSE [logged EXCEPT !.effects =
                    Append(@, [call |-> "create_task", message_id |-> message_id])]
       [] OTHER -> logged

\* Manager.execute_automation_plan: an exception ends the loop.
RECURSIVE execute_automation_plan(_, _, _)
execute_automation_plan(plan, w, clickup_env) ==
  IF plan = << >> \/ w.raised # None THEN w
  ELSE execute_automation_plan(
         Tail(plan),
         execute_action(w, clickup_env, Head(plan).item.message_id,
                        Head(plan).rule.action, Head(plan).rule.name),
         clickup_env)

\* run_daily_automation that executes whatever dry_run says.
run_daily_automation_ignoring_dry_run(mgr, w, clickup_env, dry_run) ==
  execute_automation_plan(get_automation_plan(mgr, w.mailbox), w, clickup_env)

\* Manager.run_daily_automation
run_daily_automation(mgr, w, clickup_env, dry_run) ==
  IF dry_run THEN w
  ELSE execute_automation_plan(get_automation_plan(mgr, w.mailbox), w, clickup_env)

\* ------------------------------------------------------------------ cli.py
\* run_automation(argv): returns [world, plan, returned]; returned is None when
\* the command ended in an exception.
run_automation(config, w, clickup_env, dry_run, yes, answer) ==
  LET mgr == Manager(config)
  IN IF ~mgr.ok
     THEN [world |-> [w EXCEPT !.raised = Some(mgr.error)], plan |-> << >>, returned |-> None]
     ELSE LET plan == get_automation_plan(mgr.value, w.mailbox)
              q == IF answer = None THEN << "n" >> ELSE Lower(Strip(answer[1]))
          IN IF plan = << >> THEN [world |-> w, plan |-> plan, returned |-> Some(0)]
             ELSE IF dry_run THEN [world |-> w, plan |-> plan, returned |-> Some(0)]
             ELSE IF ~yes /\ q # << "y" >> THEN [world |-> w, plan |-> plan, returned |-> Some(0)]
             ELSE LET after == execute_automation_plan(plan, w, clickup_env)
                  IN [world |-> after, plan |-> plan,
                      returned |-> IF after.raised = None THEN Some(0) ELSE None]

\* ------------------------------------------- config.py: the mapping form
\* JSON values, as json.loads returns them and json.dumps takes them.
JNull == [t |-> "null"]
JStr(s) == [t |-> "str", v |-> s]
JBool(b) == [t |-> "bool", v |-> b]
JNum(n) == [t |-> "num", v |-> n]
JList(l) == [t |-> "list", v |-> l]
JObj(d) == [t |-> "obj", v |-> d]

\* d.get(k) and d.get(k, default)
Get(d, k) == IF k \in DOMAIN d THEN d[k] ELSE JNull
GetDefault(d, k, default) == IF k \in DOMAIN d THEN d[k] ELSE default

\* isinstance(x, str) and x.strip()
IsNonBlankStr(x) == x.t = "str" /\ Strip(x.v) # << >>

\* An Optional[str] attribute as a JSON value and back.
ToJson(o) == IF o = None THEN JNull ELSE JStr(o[1])
FromJson(x) == IF x.t = "str" THEN Some(x.v) ELSE None

\* bool(x)
PyBool(x) ==
  CASE x.t = "null" -> FALSE
    [] x.t = "bool" -> x.v
    [] x.t = "str" -> x.v # << >>
    [] x.t = "list" -> x.v # << >>
    [] x.t = "num" -> x.v # 0
    [] OTHER -> TRUE

\* The actions as the strings a mapping spells them with; explode is the
\* invalid action of the tests.
ActionLiterals ==
  [print |-> << "p", "r", "i", "n", "t" >>,
   explode |-> << "e", "x", "p", "l", "o", "d", "e" >>,
   archive |-> << "a", "r", "c", "h", "i", "v", "e" >>,
   delete |-> << "d", "e", "l", "e", "t", "e" >>,
   clickup |-> << "c", "l", "i", "c", "k", "u", "p" >>]

\* A ValueError with the message template and the values formatted into it.
ValueError(message, args) == [exc |-> "ValueError", message |-> message, args |-> args]

\* MatchCriteria.to_dict
MatchCriteria_to_dict(m) ==
  [header_list_id_contains |-> ToJson(m.header_list_id_contains),
   requires_unsubscribe_header |-> JBool(m.requires_unsubscribe_header),
   from_domain |-> ToJson(m.from_domain),
   from_exact |-> ToJson(m.from_exact),
   subject_contains |-> ToJson(m.subject_contains)]

\* MatchCriteria.from_dict
MatchCriteria_from_dict(d) ==
  MatchCriteria(
    [header_list_id_contains |-> FromJson(Get(d, "header_list_id_contains")),
     requires_unsubscribe_header |->
       PyBool(GetDefault(d, "requires_unsubscribe_header", JBool(FALSE))),
     from_domain |-> FromJson(Get(d, "from_domain")),
     from_exact |-> FromJson(Get(d, "from_exact")),
     subject_contains |-> FromJson(Get(d, "subject_contains"))]).value

\* PrintRule.to_dict
PrintRule_to_dict(r) ==
  [name |-> JStr(r.name), action |-> JStr(ActionLiterals[r.action]),
   match |-> JObj(MatchCriteria_to_dict(r.match))]

\* PrintRule.from_dict
PrintRule_from_dict(d) ==
  LET name == Get(d, "name")
      action == Get(d, "action")
      match == Get(d, "match")
  IN IF ~IsNonBlankStr(name)
     THEN Raise(ValueError("Rule must have a non-empty 'name' string.", << >>))
     ELSE IF ~\E a \in ActionType : action = JStr(ActionLiterals[a])
     THEN Raise(ValueError("Rule '{name}' has invalid action: {action!r}",
                           << name, action >>))
     ELSE IF match.t # "obj"
     THEN Raise(ValueError("Rule '{name}' must have a 'match' object.", << name >>))
     ELSE Return(PrintRule(Strip(name.v),
                           CHOOSE a \in ActionType : action = JStr(ActionLiterals[a]),
                           MatchCriteria_from_dict(match.v)))

\* AppConfig.to_dict
AppConfig_to_dict(cfg) ==
  [printer_name |-> JStr(cfg.printer_name),
   print_rules |-> JList([i \in 1..Len(cfg.print_rules) |->
                            JObj(PrintRule_to_dict(cfg.print_rules[i]))])]

\* tuple(PrintRule.from_dict(x) for x in rules_raw): the first rule that is
\* rejected raises.
RECURSIVE RulesFromDicts(_)
RulesFromDicts(rules_raw) ==
  IF rules_raw = << >> THEN Return(<< >>)
  ELSE IF Head(rules_raw).t # "obj" THEN Raise("AttributeError")
  ELSE LET first == PrintRule_from_dict(Head(rules_raw).v)
       IN IF ~first.ok THEN first
          ELSE LET rest == RulesFromDicts(Tail(rules_raw))
               IN IF ~rest.ok THEN rest ELSE Return(<< first.value >> \o rest.value)

DefaultPrinterName == << "H", "P", "5", "7", "7", "d", "w" >>

\* AppConfig.from_dict
AppConfig_from_dict(d) ==
  LET printer_name == GetDefault(d, "printer_name", JStr(DefaultPrinterName))
      rules_raw == GetDefault(d, "print_rules", JList(<< >>))
  IN IF ~IsNonBlankStr(printer_name)
     THEN Raise(ValueError("Config 'printer_name' must be a non-empty string.", << >>))
     ELSE IF rules_raw.t # "list"
     THEN Raise(ValueError("Config 'print_rules' must be a list.", << >>))
     ELSE LET rules == RulesFromDicts(rules_raw.v)
          IN IF ~rules.ok THEN rules
             ELSE Return(AppConfig(Strip(printer_name.v), rules.value))

\* load_config: file is None when the path does not exist, else the JSON
\* document it holds.
load_config(file) ==
  IF file = None THEN Return(AppConfig(DefaultPrinterName, << >>))
  ELSE LET data == file[1]
       IN IF data.t # "obj"
          THEN Raise(ValueError("Config file root must be a JSON object.", << >>))
          ELSE AppConfig_from_dict(data.v)

\* save_config: the document written to the temporary file replaces the file.
save_config(cfg) == Some(JObj(AppConfig_to_dict(cfg)))

\* dict[k] = v on an insertion-ordered dict held as a sequence of
\* << key, value >>: an existing key keeps its position, a new key goes last.
DictSet(items, k, v) ==
  IF \E i \in 1..Len(items) : items[i][1] = k
  THEN [i \in 1..Len(items) |-> IF items[i][1] = k THEN << k, v >> ELSE items[i]]
  ELSE Append(items, << k, v >>)

\* {r.name.lower(): r for r in print_rules}
RECURSIVE DictByLowerName(_)
DictByLowerName(print_rules) ==
  IF print_rules = << >> THEN << >>
  ELSE LET n == Len(print_rules)
           last == print_rules[n]
       IN DictSet(DictByLowerName(SubSeq(print_rules, 1, n - 1)), Lower(last.name), last)

\* add_rule that appends the rule whatever the names held.
add_rule_appending(cfg, rule) ==
  AppConfig(cfg.printer_name, Append(cfg.print_rules, rule))

\* add_rule
add_rule(cfg, rule) ==
  LET existing == DictSet(DictByLowerName(cfg.print_rules), Lower(rule.name), rule)
      rules_sorted == [i \in 1..Len(existing) |-> existing[i][2]]
  IN AppConfig(cfg.printer_name, rules_sorted)

\* ------------------------------------------------- web_server.py: do_POST
\* POST /api/config: the payload is validated by from_dict and saved; any
\* exception answers 400 and leaves the file alone.
do_POST(payload, file) ==
  IF payload.t # "obj" THEN [status |-> 400, file |-> file]
  ELSE LET cfg == AppConfig_from_dict(payload.v)
       IN IF cfg.ok THEN [status |-> 200, file |-> save_config(cfg.value)]
          ELSE [status |-> 400, file |-> file]

\* ---------------------------------------------------------------- infer.py
\* A headers dict is the sequence of its << name, value >> items.
DictHas(items, k) == \E i \in 1..Len(items) : items[i][1] = k

\* items.get(k, "")
DictGetStr(items, k) ==
  IF DictHas(items, k) THEN items[CHOOSE i \in 1..Len(items) : items[i][1] = k][2] ELSE << >>

\* _lower_headers: {k.lower(): v for k, v in headers.items()}
RECURSIVE lower_headers(_)
lower_headers(headers) ==
  IF headers = << >> THEN << >>
  ELSE LET n == Len(headers)
       IN DictSet(lower_headers(SubSeq(headers, 1, n - 1)), Lower(headers[n][1]), headers[n][2])

\* s.strip("<>")
RECURSIVE LStripChars(_, _)
LStripChars(s, chars) ==
  IF s # << >> /\ Head(s) \in chars THEN LStripChars(Tail(s), chars) ELSE s

RECURSIVE RStripChars(_, _)
RStripChars(s, chars) ==
  IF s # << >> /\ s[Len(s)] \in chars THEN RStripChars(SubSeq(s, 1, Len(s) - 1), chars) ELSE s

StripChars(s, chars) == RStripChars(LStripChars(s, chars), chars)

\* s.split()[:1]: the first whitespace-separated word, if there is one
FirstWord(s) ==
  LET w == LStrip(s)
      sp == IndexOf(" ", w)
  IN IF w = << >> THEN << >>
     ELSE << IF sp > 0 THEN SubSeq(w, 1, sp - 1) ELSE w >>

\* s.split("@", 1)[1]
AfterAt(s) == SubSeq(s, IndexOf("@", s) + 1, Len(s))

\* [h.get(k, "") for h in lowered if h.get(k)]
RECURSIVE TruthyValues(_, _)
TruthyValues(lowered, k) ==
  IF lowered = << >> THEN << >>
  ELSE (IF DictGetStr(Head(lowered), k) # << >>
        THEN << DictGetStr(Head(lowered), k) >> ELSE << >>) \o TruthyValues(Tail(lowered), k)

\* InferenceResult without its explanation text.
InferenceResult(rule, confidence) == [rule |-> rule, confidence |-> confidence]

\* The address the loop over from_vals keeps for one From value.
AddrOf(fv) ==
  LET parsed == ParseAddr(fv)
      addr == IF ~Contains(<< "@" >>, parsed) /\ ~Contains(<< "@" >>, fv) THEN fv ELSE parsed
  IN IF addr # << >> THEN addr ELSE fv

RECURSIVE DomainsOf(_)
DomainsOf(from_vals) ==
  IF from_vals = << >> THEN << >>
  ELSE (IF Contains(<< "@" >>, AddrOf(Head(from_vals)))
        THEN << Lower(AfterAt(AddrOf(Head(from_vals)))) >> ELSE << >>)
       \o DomainsOf(Tail(from_vals))

\* infer_print_rule
infer_print_rule(rule_name, example_headers) ==
  IF example_headers = << >> THEN Raise("ValueError")
  ELSE
  LET lowered == [i \in 1..Len(example_headers) |-> lower_headers(example_headers[i])]
      list_ids == TruthyValues(lowered, << "l", "i", "s", "t", "-", "i", "d" >>)
      unsub == \E i \in 1..Len(lowered) : DictHas(lowered[i], << "l", "i", "s", "t", "-", "u", "n", "s", "u", "b", "s", "c", "r", "i", "b", "e" >>)
      from_vals == TruthyValues(lowered, << "f", "r", "o", "m" >>)
  IN IF list_ids # << >>
     THEN LET li == Strip(list_ids[1])
              li_clean == Strip(StripChars(li, { "<", ">" }))
              words == FirstWord(li_clean)
          IN IF words = << >> THEN Raise("IndexError")
             ELSE LET token == IF Len(words[1]) > 80
                               THEN SubSeq(words[1], Len(words[1]) - 59, Len(words[1]))
                               ELSE words[1]
                  IN Return(InferenceResult(
                       PrintRule(rule_name, "print",
                                 MatchCriteria([header_list_id_contains |-> Some(token),
                                                requires_unsubscribe_header |-> unsub]).value),
                       "high"))
     ELSE IF from_vals # << >>
     THEN LET domains == DomainsOf(from_vals)
          IN IF domains # << >>
             THEN Return(InferenceResult(
                    PrintRule(rule_name, "print",
                              MatchCriteria([from_domain |-> Some(domains[1]),
                                             requires_unsubscribe_header |-> unsub]).value),
                    "medium"))
             ELSE Return(InferenceResult(
                    PrintRule(rule_name, "print",
                              MatchCriteria([from_exact |-> Some(Strip(AddrOf(from_vals[1])))]).value),
                    "low"))
     ELSE Raise("ValueError")

\* --------------------------------------------------- Python float arithmetic
\* Python's float is IEEE 754 binary64 and every operation on it rounds to
\* the nearest float, ties to even. A natural number of any size is the
\* sequence of its digits in base LimbBase, least significant first, without
\* leading zeros (0 is << >>).
RECURSIVE BitLength(_)
BitLength(n) == IF n = 0 THEN 0 ELSE 1 + BitLength(n \div 2)

LimbBase == 2 ^ 13
LimbBits == BitLength(LimbBase) - 1

RECURSIVE BTrim(_)
BTrim(a) ==
  IF a = << >> THEN << >>
  ELSE IF a[Len(a)] = 0 THEN BTrim(SubSeq(a, 1, Len(a) - 1)) ELSE a

RECURSIVE BNat(_)
BNat(n) == IF n = 0 THEN << >> ELSE << n % LimbBase >> \o BNat(n \div LimbBase)

RECURSIVE BInt(_)
BInt(a) == IF a = << >> THEN 0 ELSE Head(a) + LimbBase * BInt(Tail(a))

Digit(a, i) == IF i <= Len(a) THEN a[i] ELSE 0

RECURSIVE BAddFrom(_, _, _, _)
BAddFrom(a, b, i, carry) ==
  IF i > Len(a) /\ i > Len(b)
  THEN (IF carry = 0 THEN << >> ELSE << carry >>)
  ELSE LET s == Digit(a, i) + Digit(b, i) + carry
       IN << s % LimbBase >> \o BAddFrom(a, b, i + 1, s \div LimbBase)

BAdd(a, b) == BAddFrom(a, b, 1, 0)

\* a - b for a >= b
RECURSIVE BSubFrom(_, _, _, _)
BSubFrom(a, b, i, borrow) ==
  IF i > Len(a) THEN << >>
  ELSE LET s == Digit(a, i) - Digit(b, i) - borrow
       IN << s % LimbBase >> \o BSubFrom(a, b, i + 1, IF s < 0 THEN 1 ELSE 0)

BSub(a, b) == BTrim(BSubFrom(a, b, 1, 0))

\* a < b
BLess(a, b) ==
  \/ Len(a) < Len(b)
  \/ /\ Len(a) = Len(b)
     /\ \E i \in 1..Len(a) :
          /\ a[i] < b[i]
          /\ \A j \in (i + 1)..Len(a) : a[j] = b[j]

\* a * d for a digit-sized d
RECURSIVE BMulSmallFrom(_, _, _, _)
BMulSmallFrom(a, d, i, carry) ==
  IF i > Len(a) THEN (IF carry = 0 THEN << >> ELSE << carry >>)
  ELSE LET s == a[i] * d + carry
       IN << s % LimbBase >> \o BMulSmallFrom(a, d, i + 1, s \div LimbBase)

BMulSmall(a, d) == IF d = 0 THEN << >> ELSE BMulSmallFrom(a, d, 1, 0)

RECURSIVE BMul(_, _)
BMul(a, b) ==
  IF b = << >> \/ a = << >> THEN << >>
  ELSE BAdd(BMulSmall(a, Head(b)), IF Tail(b) = << >> THEN << >> ELSE << 0 >> \o BMul(a, Tail(b)))

\* a \div d for 0 < d <= LimbBase, from the most significant digit down
RECURSIVE BDivSmallFrom(_, _, _, _)
BDivSmallFrom(a, d, i, rem) ==
  IF i = 0 THEN << >>
  ELSE LET s == rem * LimbBase + a[i]
       IN BDivSmallFrom(a, d, i - 1, s % d) \o << s \div d >>

BDivSmall(a, d) == BTrim(BDivSmallFrom(a, d, Len(a), 0))

RECURSIVE BModSmallFrom(_, _, _, _)
BModSmallFrom(a, d, i, rem) ==
  IF i = 0 THEN rem ELSE BModSmallFrom(a, d, i - 1, (rem * LimbBase + a[i]) % d)

BModSmall(a, d) == BModSmallFrom(a, d, Len(a), 0)

Zeros(k) == [i \in 1..k |-> 0]

\* a * 2^k and a \div 2^k
BShl(a, k) ==
  IF a = << >> THEN << >>
  ELSE Zeros(k \div LimbBits) \o BMulSmall(a, 2 ^ (k % LimbBits))

BShr(a, k) ==
  IF k \div LimbBits >= Len(a) THEN << >>
  ELSE BDivSmall(SubSeq(a, k \div LimbBits + 1, Len(a)), 2 ^ (k % LimbBits))

BBitLen(a) == IF a = << >> THEN 0 ELSE LimbBits * (Len(a) - 1) + BitLength(a[Len(a)])

BOdd(a) == a # << >> /\ a[1] % 2 = 1

\* A float is 0 or m * 2^e with 2^52 <= m < 2^53: [m, e], zero as
\* [m |-> << >>, e |-> 0]; no sign, no subnormals, no infinities.
\* the bits of a binary64 significand
MantBits == 53
FZero == [m |-> << >>, e |-> 0]

\* The float nearest to n * 2^e (plus a non-zero rest below n when sticky),
\* ties to even.
\* q1 * 2^(e + s) for the rounded quotient q1, of MantBits bits or one more.
Rounded(q1, e, s) ==
  IF BBitLen(q1) > MantBits
  THEN [m |-> BShr(q1, 1), e |-> e + s + 1]
  ELSE [m |-> q1, e |-> e + s]

\* q = n \div 2^s goes up when the rest is over half, or is half and q is odd.
RoundUp(q, rest, half, e, s, sticky) ==
  Rounded(IF BLess(half, rest) \/ (rest = half /\ (sticky \/ BOdd(q)))
          THEN BAdd(q, << 1 >>) ELSE q, e, s)

RoundQuotient(n, q, e, s, sticky) ==
  RoundUp(q, BSub(n, BShl(q, s)), BShl(<< 1 >>, s - 1), e, s, sticky)

RoundBits(n, len, e, sticky) ==
  IF len <= MantBits
  THEN [m |-> BShl(n, MantBits - len), e |-> e - (MantBits - len)]
  ELSE RoundQuotient(n, BShr(n, len - MantBits), e, len - MantBits, sticky)

FRound(n, e, sticky) == IF n = << >> THEN FZero ELSE RoundBits(n, BBitLen(n), e, sticky)

\* float(n) for an int n >= 0
Float(n) == FRound(BNat(n), 0, FALSE)

FMul(a, b) == FRound(BMul(a.m, b.m), a.e + b.e, FALSE)

FAdd(a, b) ==
  IF a = FZero THEN b
  ELSE IF b = FZero THEN a
  ELSE LET e == IF a.e < b.e THEN a.e ELSE b.e
       IN FRound(BAdd(BShl(a.m, a.e - e), BShl(b.m, b.e - e)), e, FALSE)

FLess(a, b) ==
  IF b = FZero THEN FALSE
  ELSE IF a = FZero THEN TRUE
  ELSE a.e < b.e \/ (a.e = b.e /\ BLess(a.m, b.m))

FLe(a, b) == a = b \/ FLess(a, b)

\* a - b for a >= b
FSub(a, b) ==
  IF b = FZero THEN a
  ELSE LET e == IF a.e < b.e THEN a.e ELSE b.e
       IN FRound(BSub(BShl(a.m, a.e - e), BShl(b.m, b.e - e)), e, FALSE)

\* a / float(d) for an int 0 < d <= LimbBase
FDivNat(n, e, d) == FRound(BDivSmall(n, d), e, BModSmall(n, d) # 0)

FDivInt(a, d) == FDivNat(BShl(a.m, 4 * LimbBits), a.e - 4 * LimbBits, d)

\* int(a): the whole part
FInt(a) == IF a = FZero THEN 0
           ELSE IF a.e >= 0 THEN BInt(BShl(a.m, a.e)) ELSE BInt(BShr(a.m, 0 - a.e))

\* ------------------------------------------------------ pdf/text_density.py
\* Numbers: the char counts, densities and thresholds handed in are whole
\* numbers, which a float holds exactly; what percentile computes from them
\* is a float.
PageTextStats(page_index, char_count, area_sq_in, density) ==
  [page_index |-> page_index, char_count |-> char_count,
   area_sq_in |-> area_sq_in, density |-> density]

\* page_text_stats: the page is given by the count of its non-whitespace
\* characters and its area; the pages read have a whole density.
page_text_stats(page, page_index) ==
  PageTextStats(page_index, page.char_count, page.area,
                IF page.area > 0 THEN page.char_count \div page.area ELSE 0)

\* sorted(values): ascending, by insertion.
RECURSIVE Insert(_, _)
Insert(x, xs) ==
  IF xs = << >> THEN << x >>
  ELSE IF x < Head(xs) THEN << x >> \o xs
  ELSE << Head(xs) >> \o Insert(x, Tail(xs))

RECURSIVE sorted(_)
sorted(values) ==
  IF values = << >> THEN << >>
  ELSE Insert(values[Len(values)], sorted(SubSeq(values, 1, Len(values) - 1)))

\* min(values) and max(values) of a non-empty sequence
Min(values) == CHOOSE v \in { values[i] : i \in 1..Len(values) } :
                 \A i \in 1..Len(values) : v <= values[i]
Max(values) == CHOOSE v \in { values[i] : i \in 1..Len(values) } :
                 \A i \in 1..Len(values) : v >= values[i]

\* percentile without interpolation: the value at rank int(r).
percentile_lower(values, p) ==
  IF values = << >> THEN FZero
  ELSE IF p <= 0 THEN Float(Min(values))
  ELSE IF p >= 100 THEN Float(Max(values))
  ELSE Float(sorted(values)[FInt(FMul(FDivInt(Float(p), 100), Float(Len(values) - 1))) + 1])

\* xs[lo] * (1 - frac) + xs[hi] * frac
Blend(at_lo, at_hi, frac) ==
  FAdd(FMul(at_lo, FSub(Float(1), frac)), FMul(at_hi, frac))

\* lo = int(r), hi = min(lo + 1, n - 1), frac = r - lo
InterpolateFrom(xs, r, lo) ==
  Blend(Float(xs[lo + 1]),
        Float(xs[(IF lo + 1 < Len(xs) - 1 THEN lo + 1 ELSE Len(xs) - 1) + 1]),
        FSub(r, Float(lo)))

\* The interpolation of percentile at rank r of the sorted values xs.
Interpolate(xs, r) == InterpolateFrom(xs, r, FInt(r))

\* percentile(values, p); p is a whole percentage.
percentile(values, p) ==
  IF values = << >> THEN FZero
  ELSE IF p <= 0 THEN Float(Min(values))
  ELSE IF p >= 100 THEN Float(Max(values))
  ELSE Interpolate(sorted(values), FMul(FDivInt(Float(p), 100), Float(Len(values) - 1)))

\* The distinct indices, highest first.
RECURSIVE SortedSetDescending(_)
SortedSetDescending(s) ==
  IF s = { } THEN << >>
  ELSE LET m == CHOOSE x \in s : \A y \in s : x >= y
       IN << m >> \o SortedSetDescending(s \ { m })

\* sorted(set(flagged)): the distinct indices, ascending.
RECURSIVE SortedSet(_)
SortedSet(s) ==
  IF s = { } THEN << >>
  ELSE LET m == CHOOSE x \in s : \A y \in s : x <= y
       IN << m >> \o SortedSet(s \ { m })

\* next(st.density for st in stats if st.page_index == idx)
DensityOf(stats, idx) ==
  stats[CHOOSE i \in 1..Len(stats) :
          stats[i].page_index = idx /\ \A j \in 1..(i - 1) : stats[j].page_index # idx].density

\* sorted(flagged, key=...): stable, an index goes after those of equal key.
RECURSIVE InsertByKey(_, _, _)
InsertByKey(idx, xs, stats) ==
  IF xs = << >> THEN << idx >>
  ELSE IF DensityOf(stats, idx) < DensityOf(stats, Head(xs)) THEN << idx >> \o xs
  ELSE << Head(xs) >> \o InsertByKey(idx, Tail(xs), stats)

\* The flagged indices left in index order.
sorted_by_index(flagged, stats) == flagged

RECURSIVE sorted_by_density(_, _)
sorted_by_density(flagged, stats) ==
  IF flagged = << >> THEN << >>
  ELSE InsertByKey(flagged[Len(flagged)],
                   sorted_by_density(SubSeq(flagged, 1, Len(flagged) - 1), stats), stats)

\* flagged_sorted[:max_suggestions] for max_suggestions >= 0
Prefix(xs, k) == SubSeq(xs, 1, IF k < Len(xs) THEN k ELSE Len(xs))

\* absolute_flag that looks at the character count only.
absolute_flag_chars_only(s, abs_min_chars, abs_min_density) ==
  s.char_count < abs_min_chars

\* absolute_flag = (s.char_count < abs_min_chars) or (s.density < abs_min_density)
absolute_flag(s, abs_min_chars, abs_min_density) ==
  s.char_count < abs_min_chars \/ s.density < abs_min_density

\* relative_flag that leaves out a page whose density equals the cutoff.
relative_flag_strict(s, cutoff) == FLess(Float(s.density), cutoff)

\* relative_flag = s.density <= cutoff
relative_flag(s, cutoff) == FLe(Float(s.density), cutoff)

\* The lines after the loop: with max_suggestions, the lowest-density pages.
Truncated(flagged, stats, max_suggestions) ==
  IF max_suggestions # None
  THEN Prefix(sorted_by_density(flagged, stats), max_suggestions[1])
  ELSE flagged

\* suggest_excludes_hybrid; max_suggestions is None or Some(k).
suggest_excludes_hybrid(stats, abs_min_chars, abs_min_density, rel_percentile, max_suggestions) ==
  IF stats = << >> THEN << >>
  ELSE LET densities == [i \in 1..Len(stats) |-> stats[i].density]
           cutoff == percentile(densities, rel_percentile)
           flagged == SortedSet({ stats[i].page_index : i \in
                        { j \in 1..Len(stats) :
                            \/ absolute_flag(stats[j], abs_min_chars, abs_min_density)
                            \/ relative_flag(stats[j], cutoff) } })
       IN Truncated(flagged, stats, max_suggestions)

\* ------------------------------------------------------ pdf/page_signals.py
\* PageSignals without area_sq_in, which nothing reads.
PageSignals(page_index, char_count, image_count, largest_image_pixels, total_image_pixels, image_dominant) ==
  [page_index |-> page_index, char_count |-> char_count,
   image_count |-> image_count, largest_image_pixels |-> largest_image_pixels,
   total_image_pixels |-> total_image_pixels, image_dominant |-> image_dominant]

\* The objects of a /XObject dictionary, in the dictionary's order: an image
\* with its /Width and /Height (None when the key is absent) and a form with
\* the /XObject dictionary of its own /Resources.
ImageXObject(w, h) == [subtype |-> "/Image", width |-> w, height |-> h, xobjects |-> << >>]
FormXObject(xobjects) == [subtype |-> "/Form", width |-> None, height |-> None, xobjects |-> xobjects]

\* int(o.get(key) or 0)
IntOrZero(v) == IF v = None THEN 0 ELSE v[1]

\* _iter_image_xobjects: the (width, height) of each object of the page's
\* /XObject dictionary whose /Subtype is /Image.
RECURSIVE ImagesAmong(_)
ImagesAmong(xobjects) ==
  IF xobjects = << >> THEN << >>
  ELSE (IF Head(xobjects).subtype = "/Image"
        THEN << << IntOrZero(Head(xobjects).width), IntOrZero(Head(xobjects).height) >> >>
        ELSE << >>) \o ImagesAmong(Tail(xobjects))

\* The images of the page and of every form under it, to any depth.
RECURSIVE ImagesAmongAndBelow(_)
ImagesAmongAndBelow(xobjects) ==
  IF xobjects = << >> THEN << >>
  ELSE (IF Head(xobjects).subtype = "/Image"
        THEN << << IntOrZero(Head(xobjects).width), IntOrZero(Head(xobjects).height) >> >>
        ELSE ImagesAmongAndBelow(Head(xobjects).xobjects))
       \o ImagesAmongAndBelow(Tail(xobjects))

iter_image_xobjects(page) == ImagesAmong(page.xobjects)

\* The loop of page_signals over images[i..]: image_count, largest, total.
RECURSIVE ImageLoop(_, _, _, _, _)
ImageLoop(images, i, image_count, largest, total) ==
  IF i > Len(images) THEN [image_count |-> image_count, largest |-> largest, total |-> total]
  ELSE LET px == images[i][1] * images[i][2]
       IN ImageLoop(images, i + 1, image_count + 1,
                    IF px > largest THEN px ELSE largest, total + px)

\* page_signals: the page is given by its character count and its /XObject
\* dictionary.
page_signals(page, page_index, dominant_pixels_threshold) ==
  LET acc == ImageLoop(iter_image_xobjects(page), 1, 0, 0, 0)
  IN PageSignals(page_index, page.char_count, acc.image_count, acc.largest, acc.total,
                 acc.largest >= dominant_pixels_threshold)

\* ----------------------------------------------------------- pdf/suggest.py

SuggestConfig(abs_min_chars, rel_percentile, rel_apply_only_if_chars_below) ==
  [abs_min_chars |-> abs_min_chars, rel_percentile |-> rel_percentile,
   rel_apply_only_if_chars_below |-> rel_apply_only_if_chars_below]

\* The candidates taken without the gate: every page.
CandidatesUngated(signals, below) == signals

\* [s for s in signals if s.char_count < below]
RECURSIVE Candidates(_, _)
Candidates(signals, below) ==
  IF signals = << >> THEN << >>
  ELSE (IF Head(signals).char_count < below THEN << Head(signals) >> ELSE << >>)
       \o Candidates(Tail(signals), below)

\* suggest_excludes
suggest_excludes(signals, cfg) ==
  IF signals = << >> THEN << >>
  ELSE LET Indices(seq, P(_)) == { seq[i].page_index : i \in { j \in 1..Len(seq) : P(seq[j]) } }
           low(s) == s.char_count < cfg.abs_min_chars
           dom(s) == s.image_dominant
           absolute == Indices(signals, low)
           image_dom == Indices(signals, dom)
           candidates == Candidates(signals, cfg.rel_apply_only_if_chars_below)
           values == [i \in 1..Len(candidates) |-> candidates[i].char_count]
           cutoff == percentile(values, cfg.rel_percentile)
           below(s) == FLe(Float(s.char_count), cutoff)
           relative == IF candidates # << >> THEN Indices(candidates, below) ELSE { }
       IN SortedSet(absolute \cup image_dom \cup relative)

\* ------------------------------------------- config.py: the file on disk
\* The text json.dumps(cfg.to_dict(), indent=2, sort_keys=True) + "\n" makes,
\* as the pieces the operating system may be handed one write at a time: the
\* opening brace, the print_rules entry, the printer_name entry (keys sorted)
\* and the closing brace with the newline.
Piece(piece, value) == [piece |-> piece, value |-> value]

dumps(d) ==
  << Piece("{", JNull), Piece("print_rules", d.print_rules),
     Piece("printer_name", d.printer_name), Piece("}\n", JNull) >>

\* The hole a write past the end of a file leaves.
Nul == Piece("\\0", JNull)

\* json.loads of the text read from a file
loads(text) ==
  IF /\ Len(text) = Len(dumps(AppConfig_to_dict(AppConfig(DefaultPrinterName, << >>))))
     /\ text[1] = Piece("{", JNull)
     /\ text[2].piece = "print_rules"
     /\ text[3].piece = "printer_name"
     /\ text[4] = Piece("}\n", JNull)
  THEN Return(JObj([print_rules |-> text[2].value, printer_name |-> text[3].value]))
  ELSE Raise("JSONDecodeError")

\* The text save_config writes for cfg.
ConfigText(cfg) == dumps(AppConfig_to_dict(cfg))

\* write(data) at offset off of a file holding content.
WriteAt(content, off, data) ==
  LET end == IF Len(content) > off + Len(data) THEN Len(content) ELSE off + Len(data)
  IN [i \in 1..end |->
        IF i > off /\ i <= off + Len(data) THEN data[i - off]
        ELSE IF i <= Len(content) THEN content[i]
        ELSE Nul]

\* The directory of the configuration file: the file each of the two names
\* p and p.with_suffix(".json.tmp") leads to, if any.
Directory(p, tmp) == [p |-> p, tmp |-> tmp]

\* One save_config call: where it is, the cfg it was given, the file its
\* handle is open on, the offset of the handle and the exception raised.
Saver(at, cfg, fd, off, error) == [at |-> at, cfg |-> cfg, fd |-> fd, off |-> off, error |-> error]

\* load_config(p), reading the file the name p leads to.
load_config_at(names, inodes) ==
  IF names.p = None THEN load_config(None)
  ELSE LET data == loads(inodes[names.p[1]])
       IN IF ~data.ok THEN data ELSE load_config(Some(data.value))

\* ------------------------------------------------------ cli.py: configure
SearchFilters(text, from_addr, newer_than_days, unread_only, inbox_only) ==
  [text |-> text, from_addr |-> from_addr, newer_than_days |-> newer_than_days,
   unread_only |-> unread_only, inbox_only |-> inbox_only]

\* _PagerState
PagerState(page_token, next_page_token) ==
  [page_token |-> page_token, next_page_token |-> next_page_token]

\* manager.SearchResult
SearchResult(items, next_page_token) == [items |-> items, next_page_token |-> next_page_token]

\* raw.startswith(prefix), raw[i:] and (s or None)
StartsWith(s, prefix) == Len(s) >= Len(prefix) /\ SubSeq(s, 1, Len(prefix)) = prefix
From(s, i) == SubSeq(s, i + 1, Len(s))
OrNone(s) == IF s = << >> THEN None ELSE Some(s)

Digits == << "0", "1", "2", "3", "4", "5", "6", "7", "8", "9" >>
IsDigit(c) == \E i \in 1..Len(Digits) : Digits[i] = c
DigitValue(c) == (CHOOSE i \in 1..Len(Digits) : Digits[i] = c) - 1
AllDigits(s) == s # << >> /\ \A i \in 1..Len(s) : IsDigit(s[i])

RECURSIVE DecimalValue(_)
DecimalValue(s) ==
  IF s = << >> THEN 0
  ELSE DecimalValue(SubSeq(s, 1, Len(s) - 1)) * Len(Digits) + DigitValue(s[Len(s)])

\* _parse_int: int(s.strip()), None when int raises.
parse_int(s) ==
  LET t == Strip(s)
  IN IF AllDigits(t) THEN Some(DecimalValue(t))
     ELSE IF t # << >> /\ t[1] = "-" /\ AllDigits(Tail(t)) THEN Some(0 - DecimalValue(Tail(t)))
     ELSE IF t # << >> /\ t[1] = "+" /\ AllDigits(Tail(t)) THEN Some(DecimalValue(Tail(t)))
     ELSE None

\* s.split(",")
RECURSIVE SplitOn(_, _)
SplitOn(s, c) ==
  IF \A i \in 1..Len(s) : s[i] # c THEN << s >>
  ELSE LET i == CHOOSE k \in 1..Len(s) : s[k] = c /\ \A j \in 1..(k - 1) : s[j] # c
       IN << SubSeq(s, 1, i - 1) >> \o SplitOn(From(s, i), c)

\* The two loops of _parse_selection: the numbers within 1..max_n, without
\* repetitions, in the order typed.
RECURSIVE SelectionLoop(_, _, _)
SelectionLoop(parts, max_n, deduped) ==
  IF parts = << >> THEN deduped
  ELSE LET n == parse_int(Head(parts))
           keep == /\ Strip(Head(parts)) # << >>
                   /\ n # None
                   /\ 1 <= n[1] /\ n[1] <= max_n
                   /\ \A i \in 1..Len(deduped) : deduped[i] # n[1]
       IN SelectionLoop(Tail(parts), max_n, IF keep THEN Append(deduped, n[1]) ELSE deduped)

parse_selection(s, max_n) == SelectionLoop(SplitOn(s, ","), max_n, << >>)

\* The locals of configure: filters, pager, history_tokens and items; the
\* page tokens mgr.search was called with while the last input was handled;
\* the exit code once the function has returned.
Loop(filters, pager, history_tokens, items, searched, returned) ==
  [filters |-> filters, pager |-> pager, history_tokens |-> history_tokens,
   items |-> items, searched |-> searched, returned |-> returned]

\* run_search(page_token) followed by items = last_res.items; res is what
\* mgr.search returns.
run_search(st, page_token, res) ==
  [st EXCEPT !.searched = Append(@, page_token),
             !.pager = PagerState(page_token, res.next_page_token),
             !.items = res.items]

\* The tail the five filter commands share.
new_search(st, filters, res) ==
  run_search([st EXCEPT !.filters = filters,
                        !.pager = PagerState(None, None),
                        !.history_tokens = << None >>], None, res)

\* on|off of /unread and /inbox
OnOff(val) == val = << "o", "n" >> \/ val = << "o", "f", "f" >>

\* /next
next_page(st, res) ==
  IF ~Truthy(st.pager.next_page_token) THEN st
  ELSE run_search([st EXCEPT !.history_tokens = Append(@, st.pager.next_page_token)],
                  st.pager.next_page_token, res)

\* /prev that leaves history_tokens as it is.
prev_page_without_pop(st, res) ==
  IF Len(st.history_tokens) <= 1 THEN st
  ELSE run_search(st, st.history_tokens[Len(st.history_tokens) - 1], res)

\* /prev
prev_page(st, res) ==
  IF Len(st.history_tokens) <= 1 THEN st
  ELSE LET popped == SubSeq(st.history_tokens, 1, Len(st.history_tokens) - 1)
       IN run_search([st EXCEPT !.history_tokens = popped], popped[Len(popped)], res)

QuitWords == { << "/", "q" >>, << "q" >>, << "q", "u", "i", "t" >>, << "e", "x", "i", "t" >> }
HelpWords == { << "/", "h" >>, << "/", "h", "e", "l", "p" >>, << "h", "e", "l", "p" >> }

\* One pass of the while loop of configure on the line typed.
handle_input(st0, typed, res) ==
  LET raw == Strip(typed)
      st == [st0 EXCEPT !.searched = << >>]
  IN IF raw = << >> THEN st
     ELSE IF raw \in QuitWords THEN [st EXCEPT !.returned = Some(0)]
     ELSE IF raw \in HelpWords THEN st
     ELSE IF StartsWith(raw, << "/", "s", " " >>)
     THEN new_search(st, [st.filters EXCEPT !.text = OrNone(Strip(From(raw, 3)))], res)
     ELSE IF StartsWith(raw, << "/", "f", "r", "o", "m", " " >>)
     THEN new_search(st, [st.filters EXCEPT !.from_addr = OrNone(Strip(From(raw, 6)))], res)
     ELSE IF StartsWith(raw, << "/", "d", "a", "y", "s", " " >>)
     THEN LET n == parse_int(From(raw, 6))
          IN IF n = None \/ n[1] < 0 THEN st
             ELSE new_search(st, [st.filters EXCEPT !.newer_than_days = n], res)
     ELSE IF StartsWith(raw, << "/", "u", "n", "r", "e", "a", "d", " " >>)
     THEN LET val == Lower(Strip(From(raw, 8)))
          IN IF ~OnOff(val) THEN st
             ELSE new_search(st, [st.filters EXCEPT !.unread_only = (val = << "o", "n" >>)], res)
     ELSE IF StartsWith(raw, << "/", "i", "n", "b", "o", "x", " " >>)
     THEN LET val == Lower(Strip(From(raw, 7)))
          IN IF ~OnOff(val) THEN st
             ELSE new_search(st, [st.filters EXCEPT !.inbox_only = (val = << "o", "n" >>)], res)
     ELSE IF raw = << "/", "s", "h", "o", "w" >> THEN run_search(st, st.pager.page_token, res)
     ELSE IF raw = << "/", "n", "e", "x", "t" >> THEN next_page(st, res)
     ELSE IF raw = << "/", "p", "r", "e", "v" >> THEN prev_page(st, res)
     ELSE IF parse_selection(raw, Len(st.items)) = << >> THEN st
     ELSE [st EXCEPT !.returned = Some(0)]

\* configure() up to the while loop.
configure_start(config, res) ==
  LET mgr == Manager(config)
  IN IF ~mgr.ok THEN mgr
     ELSE Return(run_search(Loop(SearchFilters(None, None, Some(7), TRUE, TRUE),
                                 PagerState(None, None), << None >>, << >>, << >>, None),
                            None, res))

\* ------------------------------------------------------- wsj/job_create.py
\* The files of a job directory: a function from file names to contents.
WriteFileAt(fs, name, content) ==
  [n \in DOMAIN fs \cup { name } |-> IF n = name THEN content ELSE fs[n]]

\* The bytes of a PDF file, given by the pages of the document they encode;
\* a PDF file is never empty.
PdfBytes(doc) == [type |-> "bytes", doc |-> doc]

WsjDownloadResult(status) == [status |-> status]

WsjJobResult(ok, job_id, wsj) == [ok |-> ok, job_id |-> job_id, wsj |-> wsj]

\* f"p{i+1:03d}" for i + 1 < 10
PageId(i) == << "p", "0", "0", << "0", "1", "2", "3", "4", "5", "6", "7", "8", "9" >>[i + 2] >>

\* suggest_excludes_hybrid(arg) with the default keywords, for the argument
\* job_create hands it: iterating bytes yields ints, and reading .density
\* from the first of them raises AttributeError.
suggest_excludes_hybrid_of(arg) ==
  IF arg.type = "bytes"
  THEN Raise("AttributeError")
  ELSE Return(suggest_excludes_hybrid(arg.stats, 250, 25, 20, None))

\* The lines after the suggestion call: review.json is written when the call
\* returned.
WriteReview(job_id, wsj_res, fs1, pages, suggested) ==
  IF ~suggested.ok
  THEN [files |-> fs1, result |-> suggested]
  ELSE [files |-> WriteFileAt(fs1, "review.json",
                    [job |-> job_id, pages |-> pages,
                     suggested_exclude_indices |-> sorted(suggested.value)]),
        result |-> Return(WsjJobResult(TRUE, job_id, wsj_res))]

\* create_wsj_job_from_email_link from the return of download_from_email_link
\* on: fs is the job directory as the download left it.  Gives the job
\* directory afterwards and what the call returned or raised.
create_wsj_job_from_email_link(job_id, wsj_res, fs) ==
  IF wsj_res.status # "downloaded" \/ "raw.pdf" \notin DOMAIN fs
  THEN [files |-> WriteFileAt(fs, "job_status.json",
                              [job |-> job_id, ok |-> FALSE, status |-> wsj_res.status]),
        result |-> Return(WsjJobResult(FALSE, job_id, wsj_res))]
  ELSE LET fs1 == WriteFileAt(fs, "imposed.pdf", fs["raw.pdf"])
           reader == fs1["imposed.pdf"].doc
           pages == [i \in 1..Len(reader) |-> [page_id |-> PageId(i - 1)]]
       IN WriteReview(job_id, wsj_res, fs1, pages, suggest_excludes_hybrid_of(fs1["imposed.pdf"]))

\* ------------------------------------------------------------------ inputs
\* Sender strings an EmailMessage is built with.
FromEmails ==
  { << >>,
    << "a", "@", "x" >>, << "A", "@", "X" >>, << " ", "a", "@", "x", " " >>,
    << "b", "@", "x" >>, << "a", "@", "y" >>,
    << "U", " ", "<", "a", "@", "x", ">" >>,
    << "a", "@", "e", "x", "a", "m", "p", "l", "e", ".", "c", "o", "m" >>,
    << "a", "@", "o", "t", "h", "e", "r", ".", "c", "o", "m" >> }

\* Bare addresses and display names a From header is made of.
Addresses == { << "a", "@", "x" >>, << "A", "@", "X" >>, << "b", "@", "x" >> }
DisplayNames == { << "U" >> }
NameAddr(name, addr) == name \o << " ", "<" >> \o addr \o << ">" >>

\* From header values as _parse_headers leaves them (stripped).
FromHeaders ==
  { << >> } \cup Addresses \cup { NameAddr(n, a) : n \in DisplayNames, a \in Addresses }

SubjectStrings ==
  SeqsUpTo({ "P", "q" }, MaxSubjectLen)
    \cup { << "U", "p", "d", "a", "t", "e" >>,
           << "S", "u", "m", "m", "e", "r", " ", "P", "r", "o", "m", "o" >> }

Subjects == { None } \cup { Some(s) : s \in SubjectStrings }

Messages ==
  { EmailMessage("m1", f, s, {}) : f \in FromEmails, s \in Subjects }

ExactValues == { None, Some(<< >>), Some(<< " ", "A", "@", "x", " " >>) }
DomainValues ==
  { None, Some(<< >>), Some(<< " ", "X", " " >>),
    Some(<< "e", "x", "a", "m", "p", "l", "e", ".", "c", "o", "m" >>) }
ContainsValues == { None, Some(<< >>), Some(<< "P" >>) }
ExcludesValues ==
  { None, Some(<< >>), Some(<< "P" >>), Some(<< "p", "r", "o", "m", "o" >>) }
ListIdValues == { None, Some(<< "l" >>) }

\* Keyword arguments to MatchCriteria(...) that name declared fields only.
FieldKwargs ==
  { [header_list_id_contains |-> l, requires_unsubscribe_header |-> (l # None),
     from_domain |-> d, from_exact |-> e, subject_contains |-> c] :
      l \in ListIdValues, d \in DomainValues, e \in ExactValues, c \in ContainsValues }

\* Objects carrying every attribute rule_from_config reads; the same records
\* are the keyword arguments that also pass subject_excludes.
MatchObjects ==
  { [header_list_id_contains |-> l, requires_unsubscribe_header |-> (l # None),
     from_domain |-> d, from_exact |-> e, subject_contains |-> c,
     subject_excludes |-> x] :
      l \in ListIdValues, d \in DomainValues, e \in ExactValues,
      c \in ContainsValues, x \in ExcludesValues }

RuleName1 == << "r", "1" >>
RuleName2 == << "R", "2" >>

\* Predicates built by hand, as a caller of Rule(...) builds them.
PredSamples ==
  { lambda_false,
    all_of(<< match_from_exact(<< "a", "@", "x" >>) >>),
    all_of(<< match_from_domain(<< "x" >>), subject_excludes(<< "p" >>) >>),
    all_of(<< subject_contains(<< "p" >>) >>) }

EngineRules == { Rule(n, p, "print") : n \in { RuleName1, RuleName2 }, p \in PredSamples }

\* Messages of the mailbox: the raw From header, the subject, the labels.
MailKinds ==
  { [from_header |-> NameAddr(<< "U" >>, << "A", "@", "X" >>), subject |-> << "q" >>,
     labels |-> { "INBOX" }],
    [from_header |-> << "b", "@", "x" >>, subject |-> << "P" >>, labels |-> { "INBOX" }],
    [from_header |-> NameAddr(<< "U" >>, << "A", "@", "X" >>), subject |-> << "q" >>,
     labels |-> { }] }

Mailboxes == SeqsUpTo(MailKinds, MaxBatch)

AbsentObject ==
  [header_list_id_contains |-> None, requires_unsubscribe_header |-> FALSE,
   from_domain |-> None, from_exact |-> None, subject_contains |-> None,
   subject_excludes |-> None]

\* The rules a configuration is made of: one whose match is a MatchCriteria,
\* and rules whose match object carries all six attributes.
ConfigRules ==
  { PrintRule(RuleName1, "archive",
              MatchCriteria([from_exact |-> Some(<< " ", "A", "@", "x", " " >>)]).value) }
  \cup { PrintRule(RuleName1, a,
                   [AbsentObject EXCEPT !.from_exact = Some(<< " ", "A", "@", "x", " " >>)]) :
           a \in { "print", "archive", "explode" } }
  \cup { PrintRule(RuleName2, a,
                   [AbsentObject EXCEPT !.from_domain = Some(<< " ", "X", " " >>),
                                        !.subject_excludes = Some(<< "P" >>)]) :
           a \in { "delete", "clickup" } }

Configs == { AppConfig(<< "H", "P" >>, rs) : rs \in SeqsUpTo(ConfigRules, MaxRules) }

\* What the user types at the confirmation prompt; None is end of input.
Answers == { None, Some(<< " ", "Y", " " >>), Some(<< "n" >>) }

\* A mapping without the key k.
Without(d, k) == [x \in DOMAIN d \ { k } |-> d[x]]

\* The match blocks of a rule mapping: not an object, or an object.
MatchDocs ==
  { JNull,
    JObj([from_exact |-> JStr(<< "a", "@", "x" >>)]),
    JObj([from_domain |-> JStr(<< "x" >>), subject_excludes |-> JStr(<< "P" >>)]) }

\* Rule mappings: the name is missing, blank or usable, the action valid or not.
NamedRuleDocs ==
  { [name |-> JStr(n), action |-> JStr(ActionLiterals[a]), match |-> m] :
      n \in { << " " >>, RuleName1, << "R", "2", " " >> },
      a \in { "print", "explode" }, m \in MatchDocs }

RuleDocs ==
  NamedRuleDocs \cup { Without(r, "name") : r \in { d \in NamedRuleDocs : d.name = JStr(RuleName1) } }

\* The documents a configuration file or a POST body holds.
ConfigDocs ==
  { JObj([printer_name |-> JStr(<< "H", "P" >>),
          print_rules |-> JList([i \in 1..Len(rs) |-> JObj(rs[i])])]) :
      rs \in SeqsUpTo(RuleDocs, MaxRules) }
  \cup { JObj([print_rules |-> JList(<< JObj(r) >>)]) : r \in RuleDocs }
  \cup { JObj([printer_name |-> JStr(<< " " >>), print_rules |-> JList(<< >>)]),
         JObj([printer_name |-> JStr(<< "H", "P" >>), print_rules |-> JNull]),
         JObj([printer_name |-> JStr(<< "H", "P" >>), print_rules |-> JList(<< JNull >>)]),
         JList(<< >>) }

\* The arguments a caller builds a rule from: PrintRule(name, action,
\* MatchCriteria(**match)).
RuleArgs ==
  { [name |-> n, action |-> a, match |-> m] :
      n \in { RuleName1, << "R", "2", " " >> },
      a \in { "print", "archive" },
      m \in { [header_list_id_contains |-> Some(<< "l" >>), requires_unsubscribe_header |-> TRUE],
              [from_exact |-> Some(<< "a", "@", "x" >>)],
              [from_domain |-> Some(<< "x" >>), subject_excludes |-> Some(<< "P" >>)] } }

\* The rules handed to add_rule: names that differ by case only, and another.
AddedRules ==
  { PrintRule(n, a, MatchCriteria(m).value) :
      n \in { RuleName1, << "R", "1" >>, RuleName2 },
      a \in { "print", "archive" },
      m \in { [from_domain |-> Some(<< "x" >>)], [header_list_id_contains |-> Some(<< "l" >>)] } }

\* Pages as page_text_stats reads them: the character count and the area;
\* one page has no area.
TextPages ==
  { [char_count |-> 0, area |-> 1], [char_count |-> 2, area |-> 1],
    [char_count |-> 2, area |-> 2], [char_count |-> 6, area |-> 1],
    [char_count |-> 6, area |-> 2], [char_count |-> 6, area |-> 0] }

\* The keyword arguments of suggest_excludes_hybrid.
HybridArgs ==
  { [abs_min_chars |-> c, abs_min_density |-> 2, rel_percentile |-> q,
     max_suggestions |-> k] :
      c \in { 1, 3 }, q \in { 0, 15, 50 },
      k \in { None, Some(0), Some(1), Some(2) } }

DominantPixelsThreshold == 1000000

\* Pages as page_signals reads them.
BigImage == ImageXObject(Some(1000), Some(1000))
SmallImage == ImageXObject(Some(10), Some(20))

ImagePages ==
  { [char_count |-> c, xobjects |-> x] :
      c \in { 0, 2, 6 }, x \in { << >>, << BigImage >> } }

\* Pages with images beside and inside forms, one image just under the
\* default threshold, one without a /Width.
XObjectDicts ==
  { << >>, << BigImage >>, << SmallImage >>, << SmallImage, BigImage >>,
    << BigImage, SmallImage, SmallImage >>,
    << ImageXObject(Some(999), Some(1000)) >>, << ImageXObject(None, Some(20)) >>,
    << FormXObject(<< >>) >>, << FormXObject(<< BigImage >>) >>,
    << SmallImage, FormXObject(<< BigImage >>) >>,
    << FormXObject(<< SmallImage, FormXObject(<< BigImage >>) >>), SmallImage >> }

NestedPages == { [char_count |-> 2, xobjects |-> x] : x \in XObjectDicts }

\* dominant_pixels_threshold: the default and a low one.
Thresholds == { DominantPixelsThreshold, 200 }

\* SuggestConfig(): the defaults of the dataclass
DefaultSuggestConfig == SuggestConfig(250, 15, 350)

SuggestConfigs ==
  { SuggestConfig(c, q, b) : c \in { 1, 3 }, q \in { 0, 15, 50 }, b \in { 3, 7 } }
    \cup { DefaultSuggestConfig }

\* Pages without images holding some hundred or some thousand characters.
LongPages == { [char_count |-> c, xobjects |-> << >>] : c \in { 340, 2000 } }

\* The arguments of percentile.
PercentileValues == SeqsUpTo({ 0, 1, 3, 6 }, MaxPages)
Percentages == { -10, 0, 15, 20, 34, 50, 100, 150 }

\* Another document, run between two runs on the document at hand.
OtherPages == << [char_count |-> 6, area |-> 1], [char_count |-> 0, area |-> 1] >>
OtherImagePages ==
  << [char_count |-> 6, xobjects |-> << >>],
     [char_count |-> 0, xobjects |-> << BigImage >>] >>

\* Header items of the example messages: the List-Id, the From and the
\* List-Unsubscribe header in several spellings, or none.
ListIdItems ==
  { << >>,
    << << << "L", "i", "s", "t", "-", "I", "d" >>, << "<", "l", ".", "X", ">" >> >> >>,
    << << << "l", "i", "s", "t", "-", "i", "d" >>, << " ", "<", "m", ".", "x", ">", " ", "y", " " >> >> >>,
    << << << "L", "I", "S", "T", "-", "I", "D" >>, << >> >> >>,
    << << << "L", "i", "s", "t", "-", "I", "d" >>, << "<", ">" >> >> >>,
    << << << "L", "i", "s", "t", "-", "I", "D" >>, [i \in 1..81 |-> IF i <= 21 THEN "a" ELSE "b"] >> >> }

FromItems ==
  { << >>,
    << << << "F", "r", "o", "m" >>, << "a", "@", "X" >> >> >>,
    << << << "f", "r", "o", "m" >>, << "U", " ", "<", "b", "@", "Y", ">" >> >> >>,
    << << << "F", "R", "O", "M" >>, << "U", " ", "N" >> >> >>,
    << << << "F", "r", "o", "m" >>, << >> >> >> }

UnsubscribeItems ==
  { << >>, << << << "L", "i", "s", "t", "-", "U", "n", "s", "u", "b", "s", "c", "r", "i", "b", "e" >>, << "<", "u", ">" >> >> >> }

ExampleHeaders == { f \o l \o u : f \in FromItems, l \in ListIdItems, u \in UnsubscribeItems }

\* What download_from_email_link reports.
DownloadStatuses == { "downloaded", "blocked", "needs_manual" }

JobId == << "w", "s", "j" >>

\* The configurations handed to concurrent save_config calls.
SaveConfigs ==
  { AppConfig(<< "A" >>, << >>),
    AppConfig(<< "B" >>,
              << PrintRule(RuleName1, "archive",
                           MatchCriteria([from_exact |-> Some(<< "a", "@", "x" >>)]).value) >>) }

\* The save_config calls in flight.
Savers == 1..MaxSavers

\* What mgr.search may return: a page of messages and the token of the next
\* page, which Gmail leaves out, or sends, for the last page.
SearchResults ==
  { SearchResult(<< "m1", "m2" >>, Some(<< "t" >>)),
    SearchResult(<< "m1", "m2" >>, Some(<< "u" >>)),
    SearchResult(<< "m1" >>, None),
    SearchResult(<< >>, Some(<< >>)) }

\* The lines typed at the mailops> prompt.
TypedLines ==
  { << >>, << "/", "h" >>, << "/", "q" >>,
    << "/", "s", " ", "x" >>,
    << "/", "f", "r", "o", "m", " ", "a" >>,
    << "/", "d", "a", "y", "s", " ", "7" >>, << "/", "d", "a", "y", "s", " ", "-", "1" >>,
    << "/", "d", "a", "y", "s", " ", "x" >>,
    << "/", "u", "n", "r", "e", "a", "d", " ", "O", "N" >>,
    << "/", "u", "n", "r", "e", "a", "d", " ", "n", "o" >>,
    << "/", "i", "n", "b", "o", "x", " ", "o", "n" >>,
    << "/", "s", "h", "o", "w" >>, << " ", "/", "n", "e", "x", "t" >>,
    << "/", "p", "r", "e", "v" >>,
    << "2", ",", "x", ",", "2" >>, << "9" >> }

\* The configurations configure() may find: the default one, and one rule.
ConfigureConfigs ==
  { AppConfig(DefaultPrinterName, << >>),
    AppConfig(DefaultPrinterName,
              << PrintRule(RuleName1, "archive",
                           MatchCriteria([from_exact |-> Some(<< "a", "@", "x" >>)]).value) >>) }

\* ------------------------------------------------------------------- state
VARIABLES
  pc,        \* what the last operation was
  criteria,  \* the keyword arguments / attributes of the match object asked for
  compiled,  \* what constructing the rule returned or raised
  arg,       \* the address a match_from_exact closure was built from
  pred,      \* the predicate about to be called
  engine,    \* RulesEngine._rules
  header,    \* the From header the message was read from, if it came from Gmail
  msg,       \* the EmailMessage under evaluation
  verdict,   \* what predicate(msg) returned
  matched    \* what first_match(msg) returned

rvars == << criteria, compiled, arg, pred, engine, header, msg, verdict, matched >>

VARIABLES
  config,      \* the AppConfig the Manager is given
  clickup_env, \* whether CLICKUP_API_KEY and CLICKUP_LIST_ID are set
  mailbox,     \* the Gmail mailbox: per message id, From header, subject, labels
  manager,     \* what Manager(...) returned or raised
  run,         \* the handler that ran last and its arguments
  plan,        \* the automation plan last built
  effects,     \* the side effects issued: label changes, print jobs, tasks
  executions,  \* the execute_action calls logged
  raised,      \* the exception that ended the handler, if any
  returned     \* the exit code of the command, if it returned

mvars == << config, clickup_env, mailbox, manager, run, plan, effects, executions,
            raised, returned >>

VARIABLES
  file,     \* the configuration file: None, or the JSON document it holds
  saved,    \* the AppConfig handed to save_config, or what building it raised
  posted,   \* the body of the last POST /api/config
  status,   \* the status the POST was answered with
  loaded    \* what load_config returned or raised

cvars == << file, saved, posted, status, loaded >>

VARIABLES
  held,   \* the AppConfig the caller of add_rule holds
  added,  \* the rule last handed to add_rule
  adds    \* how many add_rule calls were made

avars == << held, added, adds >>

VARIABLES
  pages,    \* the pages of the document read
  stats,    \* the PageTextStats / PageSignals sequence held by the caller
  call,     \* the arguments of the last suggestion call
  out,      \* what the last suggestion call returned
  again,    \* what the repeated call returned
  values,   \* the sequence handed to percentile
  pct,      \* the percentage handed to percentile
  result    \* what percentile returned

pvars == << pages, stats, call, out, again, values, pct, result >>

VARIABLES
  examples,  \* the example headers handed to infer_print_rule
  inferred   \* what infer_print_rule returned or raised

ivars == << examples, inferred >>

VARIABLES
  download,  \* what download_from_email_link returned
  jobfiles,  \* the files of the job directory
  job        \* what create_wsj_job_from_email_link returned or raised

jvars == << download, jobfiles, job >>

VARIABLES
  names,     \* the directory: the files the names p and tmp lead to
  inodes,    \* the content of every file created
  savers,    \* the save_config calls
  readback   \* what the last load_config returned or raised

svars == << names, inodes, savers, readback >>

VARIABLES
  loop,    \* the locals of configure, once it has started
  session  \* what is kept of the last two prompts

gvars == << loop, session >>

\* The variables of the later parts, and for each part those of the others.
nvars == << ivars, jvars, svars, gvars >>
NotInfer == << jvars, svars, gvars >>
NotJob == << ivars, svars, gvars >>
NotSave == << ivars, jvars, gvars >>
NotConfigure == << ivars, jvars, svars >>

vars == << pc, rvars, mvars, cvars, avars, pvars, nvars >>

RulesInit ==
  /\ pc = "start"
  /\ criteria = None
  /\ compiled = None
  /\ arg = None
  /\ pred = None
  /\ engine = << >>
  /\ header = None
  /\ msg = None
  /\ verdict = None
  /\ matched = None

ManagerInit0 ==
  /\ config = None
  /\ clickup_env = FALSE
  /\ mailbox = << >>
  /\ manager = None
  /\ run = None
  /\ plan = << >>
  /\ effects = << >>
  /\ executions = << >>
  /\ raised = None
  /\ returned = None

ConfigInit ==
  /\ file = None
  /\ saved = None
  /\ posted = None
  /\ status = 0
  /\ loaded = None

AddRuleInit ==
  /\ held = AppConfig(DefaultPrinterName, << >>)
  /\ added = None
  /\ adds = 0

PdfInit ==
  /\ pages = << >>
  /\ stats = << >>
  /\ call = None
  /\ out = << >>
  /\ again = None
  /\ values = << >>
  /\ pct = 0
  /\ result = FZero

InferInit ==
  /\ examples = << >>
  /\ inferred = None

JobInit ==
  /\ download = None
  /\ jobfiles = << >>
  /\ job = None

SaveInit ==
  /\ names = Directory(None, None)
  /\ inodes = << >>
  /\ savers = [s \in Savers |-> Saver("start", None, None, 0, None)]
  /\ readback = None

ConfigureInit ==
  /\ loop = None
  /\ session = << >>

Init ==
  /\ RulesInit /\ ManagerInit0 /\ ConfigInit /\ AddRuleInit /\ PdfInit
  /\ InferInit /\ JobInit /\ SaveInit /\ ConfigureInit

\* ----------------------------------------------------- rules: the operations
\* rule_from_config(PrintRule(name, action, MatchCriteria(**kwargs))): the
\* constructor may raise before the rule is compiled.
CompileMatchCriteria ==
  \E kwargs \in FieldKwargs \cup MatchObjects :
    LET mc == MatchCriteria(kwargs)
        res == IF mc.ok THEN rule_from_config(PrintRule(RuleName1, "archive", mc.value))
               ELSE mc
    IN /\ pc = "start"
       /\ criteria' = Some(kwargs)
       /\ compiled' = Some(res)
       /\ pred' = IF res.ok THEN Some(res.value.predicate) ELSE None
       /\ pc' = IF res.ok THEN "pred" ELSE "raised"
       /\ UNCHANGED << arg, engine, header, msg, verdict, matched >>
       /\ UNCHANGED << mvars, cvars, avars, pvars, nvars >>

\* rule_from_config on a rule whose match object carries all six attributes.
CompileMatchObject ==
  \E obj \in MatchObjects :
    LET res == rule_from_config(PrintRule(RuleName1, "archive", obj))
    IN /\ pc = "start"
       /\ criteria' = Some(obj)
       /\ compiled' = Some(res)
       /\ pred' = IF res.ok THEN Some(res.value.predicate) ELSE None
       /\ pc' = IF res.ok THEN "pred" ELSE "raised"
       /\ UNCHANGED << arg, engine, header, msg, verdict, matched >>
       /\ UNCHANGED << mvars, cvars, avars, pvars, nvars >>

\* match_from_exact(addr), used directly.
MakeFromExact ==
  \E e \in ExactValues \ { None } :
    /\ pc = "start"
    /\ arg' = e
    /\ pred' = Some(match_from_exact(e[1]))
    /\ pc' = "pred"
    /\ UNCHANGED << criteria, compiled, engine, header, msg, verdict, matched >>
    /\ UNCHANGED << mvars, cvars, avars, pvars, nvars >>

\* RulesEngine(rules)
RulesEngineInit ==
  \E rules \in SeqsUpTo(EngineRules, MaxRules) :
    /\ pc = "start"
    /\ engine' = rules
    /\ pc' = "engine"
    /\ UNCHANGED << criteria, compiled, arg, pred, header, msg, verdict, matched >>
    /\ UNCHANGED << mvars, cvars, avars, pvars, nvars >>

AfterMessage == IF pc = "pred" THEN "pred_msg" ELSE "engine_msg"

\* An EmailMessage built by the caller.
NewMessage ==
  \E m \in Messages :
    /\ pc \in { "pred", "engine" }
    /\ msg' = Some(m)
    /\ header' = None
    /\ pc' = AfterMessage
    /\ UNCHANGED << criteria, compiled, arg, pred, engine, verdict, matched >>
    /\ UNCHANGED << mvars, cvars, avars, pvars, nvars >>

\* The sender and subject GmailClient.get_message_summary reads from the headers.
SummaryFrom(from_header) == extract_email_address(from_header)

\* A message read from Gmail: from_email is what get_message_summary extracts.
GetMessageSummary ==
  \E h \in FromHeaders, s \in SubjectStrings :
    /\ pc \in { "pred", "engine" }
    /\ msg' = Some(EmailMessage("m1", SummaryFrom(h), Some(s), {}))
    /\ header' = Some(h)
    /\ pc' = AfterMessage
    /\ UNCHANGED << criteria, compiled, arg, pred, engine, verdict, matched >>
    /\ UNCHANGED << mvars, cvars, avars, pvars, nvars >>

\* predicate(msg)
CallPredicate ==
  /\ pc = "pred_msg"
  /\ verdict' = Some(Call(pred[1], msg[1]))
  /\ pc' = "called"
  /\ UNCHANGED << criteria, compiled, arg, pred, engine, header, msg, matched >>
  /\ UNCHANGED << mvars, cvars, avars, pvars, nvars >>

\* engine.first_match(msg)
FirstMatch ==
  /\ pc = "engine_msg"
  /\ matched' = first_match(engine, msg[1])
  /\ pc' = "matched"
  /\ UNCHANGED << criteria, compiled, arg, pred, engine, header, msg, verdict >>
  /\ UNCHANGED << mvars, cvars, avars, pvars, nvars >>

Next ==
  \/ CompileMatchCriteria
  \/ CompileMatchObject
  \/ MakeFromExact
  \/ RulesEngineInit
  \/ NewMessage
  \/ GetMessageSummary
  \/ CallPredicate
  \/ FirstMatch

Spec == Init /\ [][Next]_vars



\* --------------------------------------------------- manager: the operations
\* The environment a Manager runs in: the configuration, the mailbox and
\* whether the ClickUp variables are set.
Setup ==
  \E cfg \in Configs, mb \in Mailboxes, env \in BOOLEAN :
    /\ pc = "start"
    /\ config' = Some(cfg)
    /\ mailbox' = mb
    /\ clickup_env' = env
    /\ pc' = "ready"
    /\ UNCHANGED << manager, run, plan, effects, executions, raised, returned >>
    /\ UNCHANGED << rvars, cvars, avars, pvars, nvars >>

\* mgr = Manager(client, config)
ManagerInit ==
  /\ pc = "ready"
  /\ manager' = Some(Manager(config[1]))
  /\ raised' = IF manager'[1].ok THEN None ELSE Some(manager'[1].error)
  /\ pc' = IF manager'[1].ok THEN "constructed" ELSE "init_raised"
  /\ UNCHANGED << config, clickup_env, mailbox, run, plan, effects, executions, returned >>
  /\ UNCHANGED << rvars, cvars, avars, pvars, nvars >>

Handler(name, dry_run, yes, answer) ==
  [handler |-> name, dry_run |-> dry_run, yes |-> yes, answer |-> answer]

\* plan = mgr.get_automation_plan()
GetAutomationPlan ==
  /\ pc = "constructed"
  /\ plan' = get_automation_plan(manager[1].value, mailbox)
  /\ run' = Some(Handler("get_automation_plan", TRUE, FALSE, None))
  /\ pc' = "planned"
  /\ UNCHANGED << config, clickup_env, mailbox, manager, effects, executions,
                  raised, returned >>
  /\ UNCHANGED << rvars, cvars, avars, pvars, nvars >>

\* mgr.execute_automation_plan(plan)
ExecuteAutomationPlan ==
  LET w == execute_automation_plan(plan, World(mailbox, effects, executions, None),
                                   clickup_env)
  IN /\ pc = "planned"
     /\ mailbox' = w.mailbox
     /\ effects' = w.effects
     /\ executions' = w.executions
     /\ raised' = w.raised
     /\ run' = Some(Handler("execute_automation_plan", FALSE, TRUE, None))
     /\ pc' = "executed"
     /\ UNCHANGED << config, clickup_env, manager, plan, returned >>
     /\ UNCHANGED << rvars, cvars, avars, pvars, nvars >>

\* mgr.run_daily_automation(dry_run)
RunDailyAutomation ==
  \E dry_run \in BOOLEAN :
    LET w == run_daily_automation(manager[1].value,
                                  World(mailbox, effects, executions, None),
                                  clickup_env, dry_run)
    IN /\ pc = "constructed"
       /\ plan' = get_automation_plan(manager[1].value, mailbox)
       /\ mailbox' = w.mailbox
       /\ effects' = w.effects
       /\ executions' = w.executions
       /\ raised' = w.raised
       /\ run' = Some(Handler("run_daily_automation", dry_run, TRUE, None))
       /\ pc' = "ran"
       /\ UNCHANGED << config, clickup_env, manager, returned >>
       /\ UNCHANGED << rvars, cvars, avars, pvars, nvars >>

\* The arguments and the answer of one `mailops run`: the prompt is only
\* reached without --dry-run and without --yes.
CliRuns ==
  { Handler("run_automation", TRUE, y, None) : y \in BOOLEAN }
  \cup { Handler("run_automation", FALSE, TRUE, None) }
  \cup { Handler("run_automation", FALSE, FALSE, a) : a \in Answers }

\* mailops run [--dry-run] [--yes]
RunAutomation ==
  \E r \in CliRuns :
    LET res == run_automation(config[1], World(mailbox, effects, executions, None),
                              clickup_env, r.dry_run, r.yes, r.answer)
    IN /\ pc = "ready"
       /\ manager' = Some(Manager(config[1]))
       /\ plan' = res.plan
       /\ mailbox' = res.world.mailbox
       /\ effects' = res.world.effects
       /\ executions' = res.world.executions
       /\ raised' = res.world.raised
       /\ returned' = res.returned
       /\ run' = Some(r)
       /\ pc' = "cli_done"
       /\ UNCHANGED << config, clickup_env >>
       /\ UNCHANGED << rvars, cvars, avars, pvars, nvars >>

NextManager ==
  \/ Setup
  \/ ManagerInit
  \/ GetAutomationPlan
  \/ ExecuteAutomationPlan
  \/ RunDailyAutomation
  \/ RunAutomation

SpecManager == Init /\ [][NextManager]_vars

\* ------------------------------------------- save_config: step by step
NotSaving == << rvars, mvars, cvars, avars, pvars, NotSave >>

\* tmp.write_text(...) opens tmp for writing: the file is created, or the
\* file the name leads to is truncated.
SaveOpen(s) ==
  \E cfg \in SaveConfigs :
    /\ pc \in { "start", "saving" }
    /\ savers[s].at = "start"
    /\ IF names.tmp = None
       THEN /\ inodes' = Append(inodes, << >>)
            /\ names' = [names EXCEPT !.tmp = Some(Len(inodes) + 1)]
       ELSE /\ inodes' = [inodes EXCEPT ![names.tmp[1]] = << >>]
            /\ names' = names
    /\ savers' = [savers EXCEPT ![s] = Saver("open", Some(cfg), names'.tmp, 0, None)]
    /\ pc' = "saving"
    /\ UNCHANGED readback
    /\ UNCHANGED NotSaving

\* One write of the text, at the offset of the handle, to the file the
\* handle is open on; the handle is closed after the last one.
SaveWrite(s) ==
  /\ pc = "saving"
  /\ savers[s].at = "open"
  /\ LET text == ConfigText(savers[s].cfg[1])
         off == savers[s].off
     IN \E k \in 1..(Len(text) - off) :
       /\ inodes' = [inodes EXCEPT ![savers[s].fd[1]] =
                       WriteAt(@, off, SubSeq(text, off + 1, off + k))]
       /\ savers' = [savers EXCEPT ![s].off = off + k,
                                   ![s].at = IF off + k = Len(text) THEN "written" ELSE "open"]
       /\ UNCHANGED << pc, names, readback >>
       /\ UNCHANGED NotSaving

\* tmp.replace(p): the name p now leads to the file tmp led to; without a
\* file under tmp the call raises.
SaveReplace(s) ==
  /\ pc = "saving"
  /\ savers[s].at = "written"
  /\ IF names.tmp = None
     THEN /\ savers' = [savers EXCEPT ![s].at = "raised", ![s].error = Some("FileNotFoundError")]
          /\ names' = names
     ELSE /\ savers' = [savers EXCEPT ![s].at = "returned"]
          /\ names' = Directory(names.tmp, None)
  /\ UNCHANGED << pc, inodes, readback >>
  /\ UNCHANGED NotSaving

\* The process dies inside save_config.
SaveCrash(s) ==
  /\ pc = "saving"
  /\ savers[s].at \in { "open", "written" }
  /\ savers' = [savers EXCEPT ![s].at = "crashed"]
  /\ UNCHANGED << pc, names, inodes, readback >>
  /\ UNCHANGED NotSaving

\* load_config(p) between the steps of the saves.
LoadConfigAt ==
  /\ pc = "saving"
  /\ readback' = Some(load_config_at(names, inodes))
  /\ UNCHANGED << pc, names, inodes, savers >>
  /\ UNCHANGED NotSaving

NextSave ==
  \/ \E s \in Savers : SaveOpen(s)
  \/ \E s \in Savers : SaveWrite(s)
  \/ \E s \in Savers : SaveReplace(s)
  \/ \E s \in Savers : SaveCrash(s)
  \/ LoadConfigAt

SpecSave == Init /\ [][NextSave]_vars

\* --------------------------------------------- configure: the operations
\* What is kept of one prompt: the line typed, the token of the page shown
\* before it, and pager, history_tokens and the searches issued after it.
Entry(typed, before, st) ==
  [typed |-> typed, before |-> before, pager |-> st.pager,
   history_tokens |-> st.history_tokens, searched |-> st.searched]

\* The last two entries.
Recent(entries) ==
  IF Len(entries) <= 2 THEN entries
  ELSE SubSeq(entries, Len(entries) - 1, Len(entries))

\* mailops configure, up to the first prompt
Configure ==
  \E cfg \in ConfigureConfigs, res \in SearchResults :
    LET started == configure_start(cfg, res)
    IN /\ pc = "start"
       /\ loop' = IF started.ok THEN Some(started.value) ELSE None
       /\ session' = IF started.ok THEN << Entry(None, None, started.value) >> ELSE << >>
       /\ pc' = IF started.ok THEN "configure" ELSE "configure_raised"
       /\ UNCHANGED << rvars, mvars, cvars, avars, pvars, NotConfigure >>

\* One line typed at the prompt.
TypeLine ==
  \E typed \in TypedLines, res \in SearchResults :
    /\ pc = "configure"
    /\ loop[1].returned = None
    /\ (Strip(typed) = << "/", "n", "e", "x", "t" >> /\ Truthy(loop[1].pager.next_page_token))
         => Len(loop[1].history_tokens) < MaxHistory
    /\ loop' = Some(handle_input(loop[1], typed, res))
    /\ session' = Recent(Append(session, Entry(Some(typed), loop[1].pager.page_token, loop'[1])))
    /\ UNCHANGED pc
    /\ UNCHANGED << rvars, mvars, cvars, avars, pvars, NotConfigure >>

NextConfigure ==
  \/ Configure
  \/ TypeLine

SpecConfigure == Init /\ [][NextConfigure]_vars

\* ------------------------------------------------------ infer: the operation
\* infer_print_rule(rule_name, example_headers)
InferPrintRule ==
  \E hs \in SeqsUpTo(ExampleHeaders, MaxExamples) :
    /\ pc = "start"
    /\ examples' = hs
    /\ inferred' = Some(infer_print_rule(RuleName1, hs))
    /\ pc' = "inferred"
    /\ UNCHANGED << rvars, mvars, cvars, avars, pvars >>
    /\ UNCHANGED NotInfer

NextInfer == InferPrintRule

SpecInfer == Init /\ [][NextInfer]_vars

\* --------------------------------------------------- wsj job: the operation
\* download_from_email_link reports a status and has or has not written
\* raw.pdf; create_wsj_job_from_email_link goes on from there.
CreateWsjJob ==
  \E st \in DownloadStatuses, written \in { None } \cup { Some(d) : d \in SeqsUpTo(TextPages, MaxPages) } :
    LET fs == IF written = None THEN << >>
              ELSE WriteFileAt(<< >>, "raw.pdf", PdfBytes(written[1]))
        r == create_wsj_job_from_email_link(JobId, WsjDownloadResult(st), fs)
    IN /\ pc = "start"
       /\ download' = Some(WsjDownloadResult(st))
       /\ jobfiles' = r.files
       /\ job' = Some(r.result)
       /\ pc' = "job"
       /\ UNCHANGED << rvars, mvars, cvars, avars, pvars >>
       /\ UNCHANGED NotJob

NextJob == CreateWsjJob

SpecJob == Init /\ [][NextJob]_vars

\* -------------------------------------------------------------- properties
\* getattr(c, f, None)
Attr(c, f) == IF f \in DOMAIN c THEN c[f] ELSE None

\* The positions of the engine's list whose predicate is true of the message.
Hits == { i \in 1..Len(engine) : Call(engine[i].predicate, msg[1]) }

\* C1: first_match returns the rule at the smallest position whose predicate
\* is true of the message, and None exactly when no predicate is true.
C1_FirstMatchIsEarliest ==
  pc = "matched" =>
    IF Hits = { } THEN matched = None
    ELSE \E i \in Hits : (\A j \in Hits : i <= j) /\ matched = Some(engine[i])

\* Two different rules both match and the earlier one was returned.
C1_TwoRulesMatch ==
  /\ pc = "matched"
  /\ Hits = { 1, 2 }
  /\ engine[1] # engine[2]
  /\ matched = Some(engine[1])

\* Every field of the criteria is absent or empty.
AllAbsent(c) ==
  /\ \A f \in { "header_list_id_contains", "from_domain", "from_exact",
                "subject_contains", "subject_excludes" } : ~Truthy(Attr(c, f))
  /\ ~c.requires_unsubscribe_header

\* C2: the rule compiled from a MatchCriteria with every field absent or
\* empty exists and its predicate is false of every message.
C2_EmptyCriteriaNeverMatch ==
  (criteria # None /\ AllAbsent(criteria[1])) =>
    /\ compiled[1].ok
    /\ pc = "called" => verdict = Some(FALSE)

\* What the four fields ask of a message, field by field.
Satisfies(c, m) ==
  /\ Truthy(Attr(c, "from_exact")) =>
       Lower(Strip(m.from_email)) = Lower(Strip(Attr(c, "from_exact")[1]))
  /\ Truthy(Attr(c, "from_domain")) =>
       Contains(<< "@" >> \o Lower(Strip(Attr(c, "from_domain")[1])), Lower(m.from_email))
  /\ Truthy(Attr(c, "subject_contains")) =>
       Contains(Lower(Attr(c, "subject_contains")[1]), Lower(OrEmpty(m.subject)))
  /\ Truthy(Attr(c, "subject_excludes")) =>
       ~Contains(Lower(Attr(c, "subject_excludes")[1]), Lower(OrEmpty(m.subject)))

\* C3: with at least one of the four fields non-empty, compilation succeeds
\* and the predicate is true iff every non-empty field is satisfied.
C3_PredicateIsConjunction ==
  (/\ criteria # None
   /\ \E i \in 1..Len(ReadAttributes) : Truthy(Attr(criteria[1], ReadAttributes[i]))) =>
    /\ compiled[1].ok
    /\ pc = "called" => verdict = Some(Satisfies(criteria[1], msg[1]))

\* The criteria set from_domain and subject_excludes, and nothing else.
DomainAndExcludesOnly(c) ==
  /\ Truthy(Attr(c, "from_domain"))
  /\ Attr(c, "from_domain")[1] = Strip(Attr(c, "from_domain")[1])
  /\ Truthy(Attr(c, "subject_excludes"))
  /\ ~Truthy(Attr(c, "from_exact"))
  /\ ~Truthy(Attr(c, "subject_contains"))

\* C4: a rule built from MatchCriteria(from_domain=d, subject_excludes=n)
\* matches iff the sender contains "@d" and the subject does not contain n,
\* ignoring case.
C4_DomainAndExcludesRule ==
  (criteria # None /\ DomainAndExcludesOnly(criteria[1])) =>
    /\ compiled[1].ok
    /\ pc = "called" =>
         verdict = Some(/\ Contains(<< "@" >> \o Lower(criteria[1].from_domain[1]),
                                    Lower(msg[1].from_email))
                        /\ ~Contains(Lower(criteria[1].subject_excludes[1]),
                                     Lower(OrEmpty(msg[1].subject))))

\* C5 as amended: a from_exact(a) predicate compares the message's from_email
\* as stored, trimmed and lower-cased, with a trimmed and lower-cased; a
\* message read through get_message_summary carries the bare address of its
\* From header, whether the header is addr or Name <addr>.
C5_FromExactComparesStoredSender ==
  /\ (pc = "called" /\ arg # None) =>
       verdict = Some(Lower(Strip(msg[1].from_email)) = Lower(Strip(arg[1])))
  /\ (msg # None /\ header # None) =>
       \A a \in Addresses :
         (header[1] = a \/ \E n \in DisplayNames : header[1] = NameAddr(n, a)) =>
           msg[1].from_email = a

\* A from_exact predicate matched a message whose From header was Name <addr>.
C5_NameAddrHeaderMatched ==
  /\ pc = "called"
  /\ arg # None
  /\ header = Some(NameAddr(<< "U" >>, << "A", "@", "X" >>))
  /\ verdict = Some(TRUE)

\* C5 as stated: the predicate reduces the message's sender to a bare address
\* before comparing.
C5_FromExactNormalizesSender ==
  (pc = "called" /\ arg # None) =>
    verdict = Some(Lower(Strip(extract_email_address(msg[1].from_email)))
                     = Lower(Strip(arg[1])))

\* ---------------------------------------------------- config: the operations
\* The configuration file written by hand, as the tests write it.
WriteFile ==
  \E doc \in ConfigDocs :
    /\ pc = "start"
    /\ file' = Some(doc)
    /\ pc' = "written"
    /\ UNCHANGED << saved, posted, status, loaded >>
    /\ UNCHANGED << rvars, mvars, avars, pvars, nvars >>

\* The rules AppConfig(...) is built from, each PrintRule(name, action,
\* MatchCriteria(**match)): the first constructor that raises ends the build.
RECURSIVE BuildRules(_)
BuildRules(args) ==
  IF args = << >> THEN Return(<< >>)
  ELSE LET match == MatchCriteria(Head(args).match)
       IN IF ~match.ok THEN match
          ELSE LET rest == BuildRules(Tail(args))
               IN IF ~rest.ok THEN rest
                  ELSE Return(<< PrintRule(Head(args).name, Head(args).action, match.value) >>
                              \o rest.value)

\* save_config(AppConfig(printer_name, rules)), the configuration built by
\* the caller.
SaveConfig ==
  \E args \in SeqsUpTo(RuleArgs, MaxRules) :
    LET rules == BuildRules(args)
    IN /\ pc = "start"
       /\ IF rules.ok
          THEN /\ saved' = Some(Return(AppConfig(<< "H", "P" >>, rules.value)))
               /\ file' = save_config(saved'[1].value)
               /\ pc' = "saved"
          ELSE /\ saved' = Some(rules)
               /\ file' = file
               /\ pc' = "build_raised"
       /\ UNCHANGED << posted, status, loaded >>
       /\ UNCHANGED << rvars, mvars, avars, pvars, nvars >>

\* POST /api/config
PostConfig ==
  \E payload \in ConfigDocs :
    LET res == do_POST(payload, file)
    IN /\ pc = "start"
       /\ posted' = Some(payload)
       /\ status' = res.status
       /\ file' = res.file
       /\ pc' = "posted"
       /\ UNCHANGED << saved, loaded >>
       /\ UNCHANGED << rvars, mvars, avars, pvars, nvars >>

\* load_config()
LoadConfig ==
  /\ pc \in { "start", "written", "saved", "posted" }
  /\ loaded' = Some(load_config(file))
  /\ pc' = "loaded"
  /\ UNCHANGED << file, saved, posted, status >>
  /\ UNCHANGED << rvars, mvars, avars, pvars, nvars >>

NextConfig ==
  \/ WriteFile
  \/ SaveConfig
  \/ PostConfig
  \/ LoadConfig

SpecConfig == Init /\ [][NextConfig]_vars

\* -------------------------------------------------- add_rule: the operations
\* cfg = add_rule(cfg, rule), from the empty configuration on.
AddRule ==
  \E rule \in AddedRules :
    /\ pc \in { "start", "added" }
    /\ adds < MaxAdds
    /\ held' = add_rule(held, rule)
    /\ added' = Some(rule)
    /\ adds' = adds + 1
    /\ pc' = "added"
    /\ UNCHANGED << rvars, mvars, cvars, pvars, nvars >>

NextAddRule == AddRule

SpecAddRule == Init /\ [][NextAddRule]_vars

\* ------------------------------------------------------- pdf: the operations
\* stats = [page_text_stats(p, i) for i, p in enumerate(reader.pages)]
StatsOf(ps) == [i \in 1..Len(ps) |-> page_text_stats(ps[i], i - 1)]

\* signals = [page_signals(p, i) for i, p in enumerate(reader.pages)]
SignalsOf(ps) == [i \in 1..Len(ps) |-> page_signals(ps[i], i - 1, DominantPixelsThreshold)]

ReadTextPages ==
  \E ps \in SeqsUpTo(TextPages, MaxPages) :
    /\ pc = "start"
    /\ pages' = ps
    /\ stats' = StatsOf(ps)
    /\ pc' = "stats"
    /\ UNCHANGED << call, out, again, values, pct, result >>
    /\ UNCHANGED << rvars, mvars, cvars, avars, nvars >>

ReadImagePages ==
  \E ps \in SeqsUpTo(ImagePages, MaxPages) \cup SeqsUpTo(LongPages, MaxPages) :
    /\ pc = "start"
    /\ pages' = ps
    /\ stats' = SignalsOf(ps)
    /\ pc' = "signals"
    /\ UNCHANGED << call, out, again, values, pct, result >>
    /\ UNCHANGED << rvars, mvars, cvars, avars, nvars >>

\* page_signals(page, 0, dominant_pixels_threshold=th) on one page
ReadPageSignals ==
  \E p \in NestedPages, th \in Thresholds :
    /\ pc = "start"
    /\ pages' = << p >>
    /\ call' = Some([dominant_pixels_threshold |-> th])
    /\ stats' = << page_signals(p, 0, th) >>
    /\ pc' = "page_signals"
    /\ UNCHANGED << out, again, values, pct, result >>
    /\ UNCHANGED << rvars, mvars, cvars, avars, nvars >>

\* The sequence handed to a suggestion function, reversed in place by it.
ReversedInPlace(seq) == [i \in 1..Len(seq) |-> seq[Len(seq) + 1 - i]]

\* The sequence handed to a suggestion function, once the call has returned:
\* the functions read it and build new lists, and assign to none of its items.
ArgumentAfterCall(seq) == seq

\* suggest_excludes_hybrid(stats, **args)
Hybrid(seq, args) ==
  suggest_excludes_hybrid(seq, args.abs_min_chars, args.abs_min_density,
                          args.rel_percentile, args.max_suggestions)

SuggestExcludesHybrid ==
  \E args \in HybridArgs :
    /\ pc = "stats"
    /\ call' = Some(args)
    /\ out' = Hybrid(stats, args)
    /\ stats' = ArgumentAfterCall(stats)
    /\ pc' = "hybrid"
    /\ UNCHANGED << pages, again, values, pct, result >>
    /\ UNCHANGED << rvars, mvars, cvars, avars, nvars >>

\* suggest_excludes(signals, cfg)
SuggestExcludes ==
  \E cfg \in SuggestConfigs :
    /\ pc = "signals"
    /\ call' = Some(cfg)
    /\ out' = suggest_excludes(stats, cfg)
    /\ stats' = ArgumentAfterCall(stats)
    /\ pc' = "suggested"
    /\ UNCHANGED << pages, again, values, pct, result >>
    /\ UNCHANGED << rvars, mvars, cvars, avars, nvars >>

\* The same call once more, after a run on another document.
RunAgain ==
  /\ pc \in { "hybrid", "suggested" }
  /\ again' = Some(IF pc = "hybrid"
                   THEN LET other == Hybrid(ArgumentAfterCall(StatsOf(OtherPages)), call[1])
                        IN Hybrid(stats, call[1])
                   ELSE LET other == suggest_excludes(
                                         ArgumentAfterCall(SignalsOf(OtherImagePages)), call[1])
                        IN suggest_excludes(stats, call[1]))
  /\ stats' = ArgumentAfterCall(stats)
  /\ pc' = IF pc = "hybrid" THEN "hybrid_again" ELSE "suggested_again"
  /\ UNCHANGED << pages, call, out, values, pct, result >>
  /\ UNCHANGED << rvars, mvars, cvars, avars, nvars >>

\* percentile(values, p)
Percentile ==
  \E xs \in PercentileValues, p \in Percentages :
    /\ pc = "start"
    /\ values' = xs
    /\ pct' = p
    /\ result' = percentile(xs, p)
    /\ pc' = "percentile"
    /\ UNCHANGED << pages, stats, call, out, again >>
    /\ UNCHANGED << rvars, mvars, cvars, avars, nvars >>

NextPdf ==
  \/ ReadTextPages
  \/ ReadImagePages
  \/ ReadPageSignals
  \/ SuggestExcludesHybrid
  \/ SuggestExcludes
  \/ RunAgain
  \/ Percentile

SpecPdf == Init /\ [][NextPdf]_vars

\* ----------------------------------------------------- manager: properties
\* Whether a configured rule matches a summary: some field is set and every
\* set field is satisfied.
RuleMatches(pr, item) ==
  /\ \E i \in 1..Len(ReadAttributes) : Truthy(Attr(pr.match, ReadAttributes[i]))
  /\ Satisfies(pr.match, EmailMessage(item.message_id, item.from_email,
                                      Some(item.subject), item.label_ids))

\* One << message id, rule name, action >> per item that matches some rule,
\* with the rule at the smallest matching position, in the order of the items.
RECURSIVE ExpectedPlan(_, _)
ExpectedPlan(items, print_rules) ==
  IF items = << >> THEN << >>
  ELSE LET hits == { i \in 1..Len(print_rules) : RuleMatches(print_rules[i], Head(items)) }
           k == CHOOSE i \in hits : \A j \in hits : i <= j
       IN (IF hits = { } THEN << >>
           ELSE << << Head(items).message_id, print_rules[k].name, print_rules[k].action >> >>)
          \o ExpectedPlan(Tail(items), print_rules)

PlanView(p) ==
  [i \in 1..Len(p) |-> << p[i].item.message_id, p[i].rule.name, p[i].rule.action >>]

\* C6: for every configured rule list a Manager is built, and the plan it
\* returns for the batch the search returned holds exactly one pair per message
\* that matches some rule, with the first matching rule, in batch order; with
\* no rules the plan is empty.
C6_PlanPairsFirstMatch ==
  /\ manager # None => manager[1].ok
  /\ pc = "planned" =>
       /\ PlanView(plan) = ExpectedPlan(search_messages(mailbox, TRUE), config[1].print_rules)
       /\ config[1].print_rules = << >> => plan = << >>

\* C7: a step that builds a plan, or runs run_daily_automation or `mailops run`
\* in dry-run mode, leaves every label of the mailbox as it was and issues no
\* label modification, print job or task creation.
C7_DryRunIssuesNothing ==
  [][(/\ pc' \in { "planned", "ran", "cli_done" }
      /\ pc' # pc
      /\ (run'[1].handler = "get_automation_plan" \/ run'[1].dry_run))
     => (mailbox' = mailbox /\ effects' = effects /\ executions' = executions)]_vars

\* A dry run ended with a plan that holds an archive or a delete.
C7_DryRunWithNonEmptyPlan ==
  /\ pc \in { "ran", "cli_done" }
  /\ run[1].dry_run
  /\ \E i \in 1..Len(plan) : plan[i].rule.action \in { "archive", "delete" }
  /\ effects = << >>

\* The handler that ended was asked to execute the plan it built.
ExecRequested ==
  /\ pc \in { "executed", "ran", "cli_done" }
  /\ manager[1].ok
  /\ ~run[1].dry_run
  /\ run[1].handler = "run_automation" =>
       (run[1].yes \/ (run[1].answer # None /\ Lower(Strip(run[1].answer[1])) = << "y" >>))

\* The labels message id carries once the plan p was executed on mailbox mb.
LabelsAfter(mb, p, id) ==
  IF \E i \in 1..Len(p) : p[i].item.message_id = id /\ p[i].rule.action = "archive"
  THEN mb[id].labels \ { "INBOX" }
  ELSE IF \E i \in 1..Len(p) : p[i].item.message_id = id /\ p[i].rule.action = "delete"
  THEN mb[id].labels \cup { "TRASH" }
  ELSE mb[id].labels

\* C8: a run without dry-run executes every planned pair once, in plan
\* order, and ends normally; archive removes INBOX, delete adds TRASH, any
\* other action and any unplanned message leave the labels alone.
C8_EachPairExecutedOnce ==
  [][(pc' # pc /\ ExecRequested')
     => (/\ raised' = None
         /\ executions' = executions \o
              [i \in 1..Len(plan') |-> << plan'[i].item.message_id, plan'[i].rule.action >>]
         /\ \A id \in 1..Len(mailbox) :
              mailbox'[id].labels = LabelsAfter(mailbox, plan', id))]_vars

\* ------------------------------------------------------ config: properties
\* The file holds an object with a usable printer name and a list of rule
\* objects.
FileHasRuleList ==
  /\ file # None
  /\ file[1].t = "obj"
  /\ IsNonBlankStr(GetDefault(file[1].v, "printer_name", JStr(DefaultPrinterName)))
  /\ Get(file[1].v, "print_rules").t = "list"
  /\ \A i \in 1..Len(file[1].v.print_rules.v) : file[1].v.print_rules.v[i].t = "obj"

FileRules == [i \in 1..Len(file[1].v.print_rules.v) |-> file[1].v.print_rules.v[i].v]

\* The rule mapping has an invalid action, no usable name or no match object.
Offending(r) ==
  \/ ~IsNonBlankStr(Get(r, "name"))
  \/ ~\E a \in ActionType : Get(r, "action") = JStr(ActionLiterals[a])
  \/ Get(r, "match").t # "obj"

\* The error carries the rule's name, when it has one, or its position.
Identifies(err, r, i) ==
  \E k \in 1..Len(err.args) :
    \/ IsNonBlankStr(Get(r, "name")) /\ err.args[k] = Get(r, "name")
    \/ err.args[k] = JNum(i)
    \/ err.args[k] = JNum(i - 1)

\* C9: loading a file in which some rule has an invalid action, no usable
\* name or a match that is no object raises an error that names the first
\* such rule or gives its position, and returns no configuration.
C9_OffendingRuleIdentified ==
  (/\ pc = "loaded"
   /\ FileHasRuleList
   /\ \E i \in 1..Len(FileRules) : Offending(FileRules[i])) =>
    LET i == CHOOSE j \in 1..Len(FileRules) :
               Offending(FileRules[j]) /\ \A k \in 1..(j - 1) : ~Offending(FileRules[k])
    IN /\ ~loaded[1].ok
       /\ Identifies(loaded[1].error, FileRules[i], i)

\* The optional string fields of a match block.
MatchStringFields ==
  { "header_list_id_contains", "from_domain", "from_exact", "subject_contains",
    "subject_excludes" }

\* C10: a configuration whose rules set any of the six match fields can be
\* built and saved, loading it back returns an equal configuration, and a
\* mapping accepted by POST /api/config loads back with every match field
\* it was posted with.
C10_SaveLoadRoundTrip ==
  /\ saved # None => saved[1].ok
  /\ (pc = "loaded" /\ saved # None) => loaded[1] = saved[1]
  /\ (pc = "loaded" /\ posted # None /\ status = 200) =>
       /\ loaded[1].ok
       /\ \A i \in 1..Len(posted[1].v.print_rules.v) :
            \A f \in MatchStringFields :
              Attr(loaded[1].value.print_rules[i].match, f)
                = FromJson(Get(posted[1].v.print_rules.v[i].v.match.v, f))

\* ---------------------------------------------------- add_rule: properties
\* The positions of a rule list whose name equals n ignoring case.
SameName(print_rules, n) ==
  { i \in 1..Len(print_rules) : Lower(print_rules[i].name) = Lower(n) }

\* No two rules of the list have names that are equal ignoring case.
NamesDistinct(print_rules) ==
  \A i, j \in 1..Len(print_rules) :
    Lower(print_rules[i].name) = Lower(print_rules[j].name) => i = j

\* C11: after any sequence of add_rule calls from the empty configuration no
\* two rules have names equal ignoring case; a call whose rule's name is
\* held already, ignoring case, keeps the count and puts the new rule at the
\* old one's position; a call with a new name appends; every other rule,
\* the order and the printer name stay as they were.
C11_AddRuleAddsOrReplaces ==
  [][(adds' = adds + 1) =>
       LET hit == SameName(held.print_rules, added'[1].name)
           n == Len(held.print_rules)
       IN /\ NamesDistinct(held'.print_rules)
          /\ held'.printer_name = held.printer_name
          /\ IF hit # { }
             THEN /\ Len(held'.print_rules) = n
                  /\ \A i \in 1..n :
                       held'.print_rules[i] =
                         IF i \in hit THEN added'[1] ELSE held.print_rules[i]
             ELSE held'.print_rules = Append(held.print_rules, added'[1])]_vars

\* A rule was replaced by one whose name is spelled differently, with another
\* rule held after it.
C11_ReplacedInPlace ==
  /\ adds = 3
  /\ Len(held.print_rules) = 2
  /\ held.print_rules[1] = added[1]
  /\ held.print_rules[1].name = << "R", "1" >>
  /\ held.print_rules[2].name = RuleName2

\* C12: every AppConfig that load_config returns holds rules whose names are
\* non-empty and pairwise distinct ignoring case.
C12_LoadedNamesDistinct ==
  (pc = "loaded" /\ loaded[1].ok) =>
    /\ \A i \in 1..Len(loaded[1].value.print_rules) :
         loaded[1].value.print_rules[i].name # << >>
    /\ NamesDistinct(loaded[1].value.print_rules)

\* ---------------------------------------------------------- pdf: properties
\* The page indices a suggestion call returned.
OutSet == { out[i] : i \in 1..Len(out) }

\* The indices of the pages with char_count < abs_min_chars or
\* density < abs_min_density.
AbsolutePages ==
  { stats[i].page_index : i \in
      { j \in 1..Len(stats) : \/ stats[j].char_count < call[1].abs_min_chars
                              \/ stats[j].density < call[1].abs_min_density } }

\* C13 as amended: the output of suggest_excludes_hybrid holds every page
\* that satisfies the absolute condition, unless max_suggestions = k is
\* given and the output already holds k indices.
C13_AbsoluteKeptUnlessTruncated ==
  pc = "hybrid" =>
    \/ AbsolutePages \subseteq OutSet
    \/ call[1].max_suggestions # None /\ Len(out) = call[1].max_suggestions[1]

\* Without max_suggestions a page that only the density threshold flags is
\* returned, next to a page that is not flagged.
C13_DensityFlaggedPageReturned ==
  /\ pc = "hybrid"
  /\ call[1].max_suggestions = None
  /\ \E i \in 1..Len(stats) :
       /\ stats[i].char_count >= call[1].abs_min_chars
       /\ stats[i].density < call[1].abs_min_density
       /\ stats[i].page_index \in OutSet
  /\ OutSet # { stats[i].page_index : i \in 1..Len(stats) }

\* C13 as stated: for every parameter setting, max_suggestions included, the
\* output holds every page that satisfies the absolute condition.
C13_AbsoluteAlwaysKept ==
  pc = "hybrid" => AbsolutePages \subseteq OutSet

\* The k-th smallest value of a non-empty sequence, k from 1.
KthSmallest(xs, k) ==
  CHOOSE v \in { xs[i] : i \in 1..Len(xs) } :
    /\ Cardinality({ i \in 1..Len(xs) : xs[i] < v }) < k
    /\ k <= Cardinality({ i \in 1..Len(xs) : xs[i] <= v })

\* The percentile as specified: the minimum for p <= 0, the maximum for
\* p >= 100, 0.0 for no values, else xs[lo] * (1 - frac) + xs[hi] * frac
\* between the order statistics lo and hi of rank r = (p / 100) * (n - 1),
\* each operation a float operation.
SpecifiedPercentile(xs, p) ==
  LET n == Len(xs)
      r == FMul(FDivInt(Float(p), 100), Float(n - 1))
      lo == FInt(r)
      hi == IF lo + 1 < n - 1 THEN lo + 1 ELSE n - 1
      frac == FSub(r, Float(lo))
  IN IF n = 0 THEN FZero
     ELSE IF p <= 0 THEN Float(KthSmallest(xs, 1))
     ELSE IF p >= 100 THEN Float(KthSmallest(xs, n))
     ELSE FAdd(FMul(Float(KthSmallest(xs, lo + 1)), FSub(Float(1), frac)),
               FMul(Float(KthSmallest(xs, hi + 1)), frac))

\* The indices of the pages whose density is at most the rel_percentile-th
\* percentile of the densities of all pages.
RelativePages ==
  { stats[i].page_index : i \in
      { j \in 1..Len(stats) :
          FLe(Float(stats[j].density),
              SpecifiedPercentile([k \in 1..Len(stats) |-> stats[k].density],
                                  call[1].rel_percentile)) } }

\* C14: without max_suggestions, suggest_excludes_hybrid returns a page iff
\* it has char_count < abs_min_chars, or density < abs_min_density, or a
\* density at most the rel_percentile-th percentile of all densities.
C14_HybridFlagsExactly ==
  (pc = "hybrid" /\ call[1].max_suggestions = None) =>
    OutSet = AbsolutePages \cup RelativePages

\* Three pages: the first satisfies none of the three conditions and is not
\* returned, the second is returned for its rank only, the third is blank.
C14_HeavyLightBlank ==
  /\ pc = "hybrid"
  /\ call[1].max_suggestions = None
  /\ Len(stats) = 3
  /\ out = << 1, 2 >>
  /\ 1 \notin AbsolutePages
  /\ stats[3].char_count = 0

\* C15: suggest_excludes_hybrid returns its indices strictly ascending, hence
\* without duplicates, for every input and setting, max_suggestions included.
C15_HybridOutputAscending ==
  pc = "hybrid" => \A i \in 1..(Len(out) - 1) : out[i] < out[i + 1]

\* The density of the page with index idx; page i of a document read has
\* index i - 1.
DensityAt(idx) == stats[idx + 1].density

\* Page a goes before page b when ordered by density, ties by index.
Before(a, b) ==
  DensityAt(a) < DensityAt(b) \/ (DensityAt(a) = DensityAt(b) /\ a < b)

\* C16: with max_suggestions = k the output holds at most k indices, all of
\* them flagged pages, and they are the flagged pages of lowest density in
\* order of density, pages of equal density in index order: every flagged
\* page left out comes after every returned one.
C16_TruncatedToLowestDensity ==
  (pc = "hybrid" /\ call[1].max_suggestions # None) =>
    LET k == call[1].max_suggestions[1]
        flagged == AbsolutePages \cup RelativePages
    IN /\ Len(out) = IF k < Cardinality(flagged) THEN k ELSE Cardinality(flagged)
       /\ OutSet \subseteq flagged
       /\ \A i \in 1..(Len(out) - 1) : Before(out[i], out[i + 1])
       /\ \A f \in flagged \ OutSet : \A r \in OutSet : Before(r, f)

\* The cut fell between two flagged pages of equal density, and a page of
\* lower density with a higher index was kept.
C16_CutInsideATie ==
  /\ pc = "hybrid"
  /\ call[1].max_suggestions = Some(2)
  /\ Len(out) = 2
  /\ out[2] < out[1]
  /\ \E f \in (AbsolutePages \cup RelativePages) \ OutSet :
       DensityAt(f) = DensityAt(out[2]) /\ out[2] < f

\* The indices of the pages of the signals held that satisfy P.
PagesWhere(P(_)) == { stats[i].page_index : i \in { j \in 1..Len(stats) : P(stats[j]) } }

LowText(s) == s.char_count < call[1].abs_min_chars
ImageDominant(s) == s.image_dominant

\* C17: when every page has char_count >= rel_apply_only_if_chars_below,
\* suggest_excludes returns exactly the pages that are low-text or
\* image-dominant: no page is flagged for its rank, and the call returns.
C17_NoCandidatesNoRelativeFlag ==
  (/\ pc = "suggested"
   /\ \A i \in 1..Len(stats) :
        stats[i].char_count >= call[1].rel_apply_only_if_chars_below) =>
    OutSet = PagesWhere(LowText) \cup PagesWhere(ImageDominant)

\* No page is below the gate; an image-dominant page is returned and the
\* page with the fewest characters of the document is not.
C17_GateClosedOnAllPages ==
  /\ pc = "suggested"
  /\ Len(stats) >= 2
  /\ \A i \in 1..Len(stats) :
       stats[i].char_count >= call[1].rel_apply_only_if_chars_below
  /\ PagesWhere(ImageDominant) # { }
  /\ OutSet = PagesWhere(ImageDominant)
  /\ \E i \in 1..Len(stats) : stats[i].page_index \notin OutSet

\* The positions of the pages below the gate, and their character counts
\* in page order.
GatedPositions ==
  { i \in 1..Len(stats) : stats[i].char_count < call[1].rel_apply_only_if_chars_below }

RECURSIVE GatedCounts(_)
GatedCounts(i) ==
  IF i > Len(stats) THEN << >>
  ELSE (IF i \in GatedPositions THEN << stats[i].char_count >> ELSE << >>)
       \o GatedCounts(i + 1)

\* The gated pages whose character count is at most the rel_percentile-th
\* percentile of the gated pages' character counts.
GatedRelativePages ==
  { stats[i].page_index : i \in
      { j \in GatedPositions :
          FLe(Float(stats[j].char_count),
              SpecifiedPercentile(GatedCounts(1), call[1].rel_percentile)) } }

\* C18: suggest_excludes returns, strictly ascending, exactly the pages that
\* are low-text, image-dominant or relative-flagged, the relative flag being
\* taken among the pages below the gate only.
C18_SuggestFlagsExactly ==
  pc = "suggested" =>
    /\ OutSet = PagesWhere(LowText) \cup PagesWhere(ImageDominant) \cup GatedRelativePages
    /\ \A i \in 1..(Len(out) - 1) : out[i] < out[i + 1]

\* A page below the gate is not returned although its count is at most the
\* percentile taken over all pages, one of them above the gate.
C18_RankAmongGatedOnly ==
  /\ pc = "suggested"
  /\ GatedRelativePages # { }
  /\ \E i \in 1..Len(stats) : i \notin GatedPositions
  /\ \E i \in GatedPositions :
       /\ stats[i].page_index \notin OutSet
       /\ FLe(Float(stats[i].char_count),
              SpecifiedPercentile([k \in 1..Len(stats) |-> stats[k].char_count],
                                  call[1].rel_percentile))

C20_PercentileAsSpecified ==
  pc = "percentile" =>
    /\ values = << >> => result = FZero
    /\ (values # << >> /\ pct <= 0) =>
         /\ \E i \in 1..Len(values) : result = Float(values[i])
         /\ \A i \in 1..Len(values) : FLe(result, Float(values[i]))
    /\ (values # << >> /\ pct >= 100) =>
         /\ \E i \in 1..Len(values) : result = Float(values[i])
         /\ \A i \in 1..Len(values) : FLe(Float(values[i]), result)
    /\ (values # << >> /\ 0 < pct /\ pct < 100) =>
         result = SpecifiedPercentile(values, pct)

\* An interpolated result: three unsorted values, p = 34, and a result
\* (2.04) strictly between two of the values.
C20_Interpolated ==
  /\ pc = "percentile"
  /\ values = << 6, 0, 3 >>
  /\ pct = 34
  /\ FLess(Float(2), result)
  /\ FLess(result, Float(3))
  /\ result = FDivInt(Float(204), 100)

\* C21: for a fixed sequence percentile is non-decreasing in p, clamped
\* regions included, and its result lies between the minimum and the maximum
\* of a non-empty sequence.
C21_PercentileMonotoneAndBounded ==
  pc = "percentile" =>
    /\ \A p2 \in Percentages : pct <= p2 => FLe(result, percentile(values, p2))
    /\ values # << >> =>
         /\ FLe(Float(Min(values)), result)
         /\ FLe(result, Float(Max(values)))

\* sum and maximum of width * height over a sequence of (width, height)
RECURSIVE SumPixels(_)
SumPixels(images) ==
  IF images = << >> THEN 0 ELSE images[1][1] * images[1][2] + SumPixels(Tail(images))

MaxPixels(images) ==
  IF images = << >> THEN 0
  ELSE LET px == { images[i][1] * images[i][2] : i \in 1..Len(images) }
       IN CHOOSE m \in px : \A x \in px : x <= m

\* C22: page_signals counts every image reachable from the page, those inside
\* forms at any depth included: image_count is their number,
\* total_image_pixels the sum and largest_image_pixels the maximum of
\* width * height over them, and image_dominant holds iff the largest reaches
\* dominant_pixels_threshold.
C22_CountsEveryReachableImage ==
  pc = "page_signals" =>
    LET images == ImagesAmongAndBelow(pages[1].xobjects)
        s == stats[1]
    IN /\ s.image_count = Len(images)
       /\ s.total_image_pixels = SumPixels(images)
       /\ s.largest_image_pixels = MaxPixels(images)
       /\ s.image_dominant <=> (MaxPixels(images) >= call[1].dominant_pixels_threshold)

\* The non-empty values the examples carry for a header, names compared
\* without regard to case, in the order of the examples.
RECURSIVE HeaderValues(_, _)
HeaderValues(hs, name) ==
  IF hs = << >> THEN << >>
  ELSE LET h == Head(hs)
           hit == { j \in 1..Len(h) : Lower(h[j][1]) = name /\ h[j][2] # << >> }
       IN (IF hit = { } THEN << >> ELSE << h[CHOOSE j \in hit : TRUE][2] >>)
          \o HeaderValues(Tail(hs), name)

\* The address of a From value: what stands between < and >, else the value.
AddressIn(fv) ==
  IF IndexOf("<", fv) > 0
  THEN SubSeq(fv, IndexOf("<", fv) + 1, IndexOf(">", fv) - 1)
  ELSE Strip(fv)

\* The From values whose address has an "@".
RECURSIVE WithAt(_)
WithAt(fvs) ==
  IF fvs = << >> THEN << >>
  ELSE (IF Contains(<< "@" >>, AddressIn(Head(fvs))) THEN << Head(fvs) >> ELSE << >>)
       \o WithAt(Tail(fvs))

\* C23: infer_print_rule picks the criteria by priority: a non-empty List-Id
\* in any example gives a high-confidence rule on header_list_id_contains;
\* else a From address with "@" gives a medium-confidence rule on from_domain,
\* the lower-cased domain of the first such address; else a From value gives
\* a low-confidence rule on from_exact; no examples, or neither header,
\* raises; the action is always print.
C23_InferByPriority ==
  pc = "inferred" =>
    LET r == inferred[1]
        list_ids == HeaderValues(examples, << "l", "i", "s", "t", "-", "i", "d" >>)
        froms == HeaderValues(examples, << "f", "r", "o", "m" >>)
        at == WithAt(froms)
    IN /\ r.ok => r.value.rule.action = "print"
       /\ IF list_ids # << >>
          THEN /\ r.ok
               /\ r.value.confidence = "high"
               /\ r.value.rule.match.header_list_id_contains # None
               /\ r.value.rule.match.from_domain = None
               /\ r.value.rule.match.from_exact = None
          ELSE IF at # << >>
          THEN /\ r.ok
               /\ r.value.confidence = "medium"
               /\ r.value.rule.match.from_domain = Some(Lower(AfterAt(AddressIn(at[1]))))
               /\ r.value.rule.match.header_list_id_contains = None
               /\ r.value.rule.match.from_exact = None
          ELSE IF froms # << >>
          THEN /\ r.ok
               /\ r.value.confidence = "low"
               /\ r.value.rule.match.from_exact # None
               /\ r.value.rule.match.header_list_id_contains = None
               /\ r.value.rule.match.from_domain = None
          ELSE ~r.ok

\* C24: when the download reports "downloaded" and raw.pdf exists, the call
\* completes with ok = True and the job directory holds raw.pdf, imposed.pdf
\* and review.json, review.json carrying one page entry per page of the PDF
\* and the suggested indices sorted, each an index into pages.
C24_DownloadedJobHasReview ==
  (pc = "job" /\ download[1].status = "downloaded" /\ "raw.pdf" \in DOMAIN jobfiles) =>
    /\ job[1].ok
    /\ job[1].value.ok
    /\ { "raw.pdf", "imposed.pdf", "review.json" } \subseteq DOMAIN jobfiles
    /\ LET review == jobfiles["review.json"]
           idx == review.suggested_exclude_indices
       IN /\ Len(review.pages) = Len(jobfiles["raw.pdf"].doc)
          /\ \A i \in 1..(Len(idx) - 1) : idx[i] <= idx[i + 1]
          /\ \A i \in 1..Len(idx) : idx[i] \in 0..(Len(review.pages) - 1)

\* C25: with the default SuggestConfig, a page that is not image-dominant and
\* has abs_min_chars <= char_count < rel_apply_only_if_chars_below, in a
\* document whose other pages all have at least rel_apply_only_if_chars_below
\* characters, is not in the output of suggest_excludes.
C25_ModeratePageNotFlagged ==
  (pc = "suggested" /\ call[1] = DefaultSuggestConfig /\ Len(stats) >= 2) =>
    \A i \in 1..Len(stats) :
      ( /\ ~stats[i].image_dominant
        /\ call[1].abs_min_chars <= stats[i].char_count
        /\ stats[i].char_count < call[1].rel_apply_only_if_chars_below
        /\ \A j \in 1..Len(stats) \ { i } :
             stats[j].char_count >= call[1].rel_apply_only_if_chars_below )
      => stats[i].page_index \notin OutSet

\* The criteria asked for set header_list_id_contains and none of the fields
\* rule_from_config compiles.
OnlyListIdFields(c) ==
  /\ c.header_list_id_contains # None
  /\ c.from_exact = None /\ c.from_domain = None /\ c.subject_contains = None
  /\ "subject_excludes" \in DOMAIN c => c.subject_excludes = None

\* The criteria with header_list_id_contains and requires_unsubscribe_header
\* back at their defaults.
WithoutListIdFields(c) ==
  [f \in DOMAIN c |->
     IF f = "header_list_id_contains" THEN None
     ELSE IF f = "requires_unsubscribe_header" THEN FALSE ELSE c[f]]

\* C26: header_list_id_contains and requires_unsubscribe_header add no
\* constraint: a MatchCriteria that sets only them compiles to a predicate
\* false for every message, and beside other fields they leave the
\* predicate's verdict as it is without them.
C26_ListIdFieldsAddNoConstraint ==
  /\ (pc \in { "pred", "raised" } /\ criteria # None /\ OnlyListIdFields(criteria[1])) =>
       /\ compiled[1].ok
       /\ \A m \in Messages : ~Call(compiled[1].value.predicate, m)
  /\ (pc = "called" /\ criteria # None) =>
       LET plain == rule_from_config(PrintRule(RuleName1, "archive",
                                               WithoutListIdFields(criteria[1])))
       IN plain.ok /\ verdict[1] = Call(plain.value.predicate, msg[1])

\* C27: for a non-empty page-stat sequence and every rel_percentile,
\* suggest_excludes_hybrid flags every page whose density is the document's
\* minimum, so the output is empty only for an empty input or for
\* max_suggestions = 0.
C27_MinimumDensityAlwaysFlagged ==
  pc = "hybrid" =>
    /\ stats = << >> => out = << >>
    /\ (stats # << >> /\ call[1].max_suggestions = None) =>
         \A i \in 1..Len(stats) :
           (\A j \in 1..Len(stats) : stats[i].density <= stats[j].density)
             => stats[i].page_index \in OutSet
    /\ (stats # << >> /\ call[1].max_suggestions # Some(0)) => out # << >>

\* Whether `mailops run` was told to go ahead: no --dry-run, and --yes or an
\* answer that is "y" once trimmed and lower-cased.
GoAhead(r) ==
  /\ ~r.dry_run
  /\ \/ r.yes
     \/ r.answer # None /\ Lower(Strip(r.answer[1])) = << "y" >>

\* C28: in `mailops run`, actions are executed only for a non-empty plan that
\* was built, without --dry-run, and with --yes or the answer "y" (trimmed,
\* case-insensitive); on every other path (empty plan, --dry-run, another
\* answer, end of input) nothing is executed and the command returns 0.
C28_ExecutedOnlyWhenConfirmed ==
  pc = "cli_done" =>
    /\ executions # << >> => (plan # << >> /\ GoAhead(run[1]))
    /\ ~(plan # << >> /\ GoAhead(run[1])) =>
         /\ executions = << >>
         /\ effects = << >>
         /\ returned = Some(0)

\* The texts of the save_config calls made so far.
TextsSaved == { ConfigText(savers[s].cfg[1]) : s \in { x \in Savers : savers[x].cfg # None } }

\* C29: under every interleaving of save_config and load_config calls and a
\* crash at any step of a save, the configuration path holds no file or one
\* complete configuration that some save_config call wrote, and no save
\* fails because of another save.
C29_ConfigPathAlwaysComplete ==
  /\ names.p # None => inodes[names.p[1]] \in TextsSaved
  /\ \A s \in Savers : savers[s].at # "raised"

\* The lines of TypedLines that change a filter.
FilterChanges ==
  { << "/", "s", " ", "x" >>, << "/", "f", "r", "o", "m", " ", "a" >>,
    << "/", "d", "a", "y", "s", " ", "7" >>,
    << "/", "u", "n", "r", "e", "a", "d", " ", "O", "N" >>,
    << "/", "i", "n", "b", "o", "x", " ", "o", "n" >> }

Typed(entry, line) == entry.typed # None /\ Strip(entry.typed[1]) = line

\* C30: in the configure loop history_tokens is never empty, starts with the
\* first-page token None and ends with the token of the page shown; /next
\* without a next-page token and /prev on the first page change neither pager
\* nor history and search nothing; /prev after /next shows the page shown
\* before that /next; every filter change resets pager and history to the
\* first page.
C30_HistoryFollowsPager ==
  pc = "configure" =>
    LET st == loop[1]
        n == Len(session)
        last == session[n]
    IN /\ st.history_tokens # << >>
       /\ st.history_tokens[1] = None
       /\ st.history_tokens[Len(st.history_tokens)] = st.pager.page_token
       /\ (n > 1 /\ Typed(last, << "/", "n", "e", "x", "t" >>)
             /\ ~Truthy(session[n - 1].pager.next_page_token))
            => /\ last.pager = session[n - 1].pager
               /\ last.history_tokens = session[n - 1].history_tokens
               /\ last.searched = << >>
       /\ (n > 1 /\ Typed(last, << "/", "p", "r", "e", "v" >>) /\ last.before = None)
            => /\ last.pager = session[n - 1].pager
               /\ last.history_tokens = session[n - 1].history_tokens
               /\ last.searched = << >>
       /\ (n > 1 /\ Typed(last, << "/", "p", "r", "e", "v" >>)
             /\ Typed(session[n - 1], << "/", "n", "e", "x", "t" >>)
             /\ session[n - 1].searched # << >>)
            => /\ last.pager.page_token = session[n - 1].before
               /\ last.searched = << session[n - 1].before >>
       /\ (last.typed # None /\ last.typed[1] \in FilterChanges)
            => /\ last.pager.page_token = None
               /\ last.history_tokens = << None >>
               /\ last.searched = << None >>

\* /prev typed right after a /next that showed a second page reached from a
\* page that was not the first.
C30_PrevAfterNext ==
  /\ pc = "configure"
  /\ Len(session) > 1
  /\ Typed(session[Len(session)], << "/", "p", "r", "e", "v" >>)
  /\ Typed(session[1], << "/", "n", "e", "x", "t" >>)
  /\ session[1].searched # << >>
  /\ session[1].before # None
  /\ loop[1].pager.page_token = session[1].before

====
